---- MODULE Spec2Model ----
(***************************************************************************)
(* A model of the artifact evaluation core: the parallel metric scorer     *)
(* (src/src/scoring.py), the ingest quality gate (src/src/ingest.py), the  *)
(* sandboxed reproducibility metric (src/src/metrics/Reproducibility.py)   *)
(* and the reviewedness metric (src/src/metrics/reviewedness.py).          *)
(*                                                                         *)
(* Numbers.  Scores are Python floats; the model keeps them as integers in *)
(* units of 1/ONE (ONE = 10000 stands for 1.0), weights as integers in     *)
(* hundredths, and a quotient as an exact fraction [n, d] with d > 0.      *)
(* Sums of weights are exact here, where the doubles of the code carry a   *)
(* rounding error.                                                         *)
(***************************************************************************)
EXTENDS Integers, Sequences, FiniteSets, TLC

VARIABLES
    \* --- MetricScorer._calculate_net_score, called on its own
    nsResults,    \* the metric_results argument: a sequence of <<name, outcome>>
    nsWeights,    \* config["metric_weights"]: name -> weight, names may be missing
    nsNet,        \* the returned net score (a fraction), or None before the call
    \* --- IngestValidator._apply_quality_gate, called on its own
    gAudit,       \* the AuditResult argument: gated field -> score
    gOut,         \* the returned (passes, failing_metrics), or None
    gCalls,       \* number of gate calls made on gAudit
    \* --- ReproducibilityMetric._calculate_reproducibility_score
    rReadme,      \* context.readme_content: None, or Some(markdown)
    rName,        \* context.model_url.name, the artifact's identifier
    rPc,          \* "start", "phase1", "phase2", "done"
    rBlocks,      \* code_blocks
    rSafe,        \* safe_blocks
    rIdx,         \* position of the running loop in safe_blocks
    rScore,       \* the returned score, or None
    rExecuted,    \* every call of _execute_in_sandbox of this call, in order
    rPast,        \* the score and the number of runs of each earlier call
    \* --- ReproducibilityMetric._execute_in_sandbox, step by step
    sbCode,       \* the code argument
    sbPc,         \* "idle", "create", "write", "run", "except", "finally"
    sbOpen,       \* f.name of the file NamedTemporaryFile created, or None
    sbTempFile,   \* the local temp_file: None, or the recorded name
    sbDisk,       \* the temporary script files that exist
    sbResult,     \* the returned dict, or None
    sbCalls,      \* number of calls started
    \* --- IngestValidator.validate_ingest_candidate, call after call
    iTable,       \* the module-level dict INGEST_QUALITY_GATE_METRICS
    iLog,         \* one record per finished call, in order
    \* --- ReviewednessMetric.compute, called on its own
    vRepos,       \* context.code_repos
    vHistory,     \* the commits of the first repository, newest first
    vPc,          \* "start", "clone", "log", "cleanup", "return", "done"
    vGit,         \* what the clone and git log yielded so far
    vScore,       \* what _calculate_reviewedness_score_sync returned, or None
    vResult,      \* what compute ended with, or None
    vCloned,      \* the repositories handed to clone_repo, in order
    vCleanups,    \* number of calls of git_inspector.cleanup()
    vClones,      \* the ephemeral clones on disk: positions in code_repos
    \* --- MetricScorer.score_model on one ModelContext
    cModelUrl,    \* context.model_url
    cDatasets,    \* context.datasets
    cCodeRepos,   \* context.code_repos
    cHfInfo,      \* context.hf_info
    cReadme,      \* context.readme_content
    cConfig,      \* context.config_data
    cFetched,     \* how the three fetches of _enrich_context ended, or None
    pPc,          \* "start", "gather", "aggregated", "done"
    pTask,        \* the metric coroutines handed to asyncio.gather
    pLoop,        \* the task that holds the event-loop thread, or None
    pOrder,       \* the metrics in the order in which their tasks ended
    pResults,     \* metric_results, or None
    pNet,         \* net_score, or None
    pOutcome,     \* what score_model ended with: an audit or an exception
    \* --- the module-level validator of ingest.py
    uValidator,   \* the global _validator: None, or the instance it holds
    uInstances,   \* the config_path of every IngestValidator constructed
    uTask,        \* the validate_and_ingest coroutines of the process
    uCalls        \* the calls of get_validator made so far, in order

singletonVars == <<uValidator, uInstances, uTask, uCalls>>
netVars   == <<nsResults, nsWeights, nsNet>>
gateVars  == <<gAudit, gOut, gCalls>>
reproVars == <<rReadme, rName, rPc, rBlocks, rSafe, rIdx, rScore, rExecuted,
               rPast>>
sandboxVars == <<sbCode, sbPc, sbOpen, sbTempFile, sbDisk, sbResult, sbCalls>>
ingestVars == <<iTable, iLog>>
reviewVars == <<vRepos, vHistory, vPc, vGit, vScore, vResult, vCloned, vCleanups,
                vClones>>
ctxVars   == <<cModelUrl, cDatasets, cCodeRepos, cHfInfo, cReadme, cConfig,
               cFetched>>
pipeVars  == <<pPc, pTask, pLoop, pOrder, pResults, pNet, pOutcome>>
vars == <<nsResults, nsWeights, nsNet, gAudit, gOut, gCalls,
          rReadme, rName, rPc, rBlocks, rSafe, rIdx, rScore, rExecuted,
          rPast,
          sbCode, sbPc, sbOpen, sbTempFile, sbDisk, sbResult, sbCalls,
          vRepos, vHistory, vPc, vGit, vScore, vResult, vCloned, vCleanups, vClones,
          iTable, iLog,
          cModelUrl, cDatasets, cCodeRepos, cHfInfo, cReadme, cConfig,
          cFetched,
          pPc, pTask, pLoop, pOrder, pResults, pNet, pOutcome,
          uValidator, uInstances, uTask, uCalls>>

\* Optional values: None, or Some(x) holding x
None == << >>
Some(x) == << x >>
IsSome(o) == Len(o) = 1
Get(o) == o[1]

----------------------------------------------------------------------------
(* Score arithmetic *)

\* 1.0 in score units
ONE == 10000
\* the not-applicable sentinel, -1.0
Sentinel == -ONE
Half == ONE \div 2

Max(a, b) == IF a >= b THEN a ELSE b

\* A fraction n/d of score units, d > 0.
Frac(n, d) == [n |-> n, d |-> d]
FracEq(x, y) == x.n * y.d = y.n * x.d
FracLe(x, y) == x.n * y.d <= y.n * x.d
FracZero == Frac(0, 1)
FracOne == Frac(ONE, 1)
\* a / b for b # 0, sign carried by the numerator
Div(a, b) == IF b > 0 THEN Frac(a, b) ELSE Frac(-a, -b)

\* max(0.0, min(1.0, x))
Clamp01(x) ==
    LET lo == IF FracLe(FracOne, x) THEN FracOne ELSE x     \* min(1.0, x)
    IN  IF FracLe(lo, FracZero) THEN FracZero ELSE lo       \* max(0.0, .)

----------------------------------------------------------------------------
(* The metric registry and the result objects *)

\* self.metrics, by name, in registration order
MetricNames ==
    << "ramp_up_time", "bus_factor", "performance_claims", "license",
       "size_score", "dataset_and_code_score", "dataset_quality",
       "code_quality", "reproducibility", "reviewedness" >>

\* MetricResult(score=s, latency=..): the latency plays no part in any score
MetricResult(s) == [kind |-> "MetricResult", score |-> s]
\* any value that is not a MetricResult instance
NotAResult == [kind |-> "other"]
IsMetricResult(r) == r.kind = "MetricResult"

\* metric_name.endswith("_latency")
EndsWithLatency(name) ==
    name \in { "net_score_latency", "size_score_latency" }

----------------------------------------------------------------------------
(* MetricScorer._calculate_net_score *)

\* weights.get(metric_name, 0.0)
WeightOf(weights, name) ==
    IF name \in DOMAIN weights THEN weights[name] ELSE 0

\* a variant of the first loop that keeps a not-applicable metric's weight in
\* the divisor
RECURSIVE NetTotalsKeepWeight(_, _, _)
NetTotalsKeepWeight(results, weights, k) ==
    IF k = 0 THEN [score |-> 0, weight |-> 0]
    ELSE LET prev == NetTotalsKeepWeight(results, weights, k - 1)
             name == results[k][1]
             res  == results[k][2]
             w    == WeightOf(weights, name)
         IN  IF EndsWithLatency(name) THEN prev
             ELSE IF ~IsMetricResult(res) THEN prev
             ELSE IF res.score < 0
                  THEN [score |-> prev.score, weight |-> prev.weight + w]
             ELSE [score  |-> prev.score + res.score * w,
                   weight |-> prev.weight + w]

\* The first loop: total_score and total_weight after the first k items.
RECURSIVE NetTotals(_, _, _)
NetTotals(results, weights, k) ==
    IF k = 0 THEN [score |-> 0, weight |-> 0]
    ELSE LET prev == NetTotals(results, weights, k - 1)
             name == results[k][1]
             res  == results[k][2]
             w    == WeightOf(weights, name)
         IN  IF EndsWithLatency(name) THEN prev
             ELSE IF ~IsMetricResult(res) THEN prev
             ELSE IF res.score < 0 THEN prev
             ELSE [score  |-> prev.score + res.score * w,
                   weight |-> prev.weight + w]

\* The second loop: present_scores after the first k items.
RECURSIVE PresentScores(_, _)
PresentScores(results, k) ==
    IF k = 0 THEN << >>
    ELSE LET prev == PresentScores(results, k - 1)
             name == results[k][1]
             res  == results[k][2]
         IN  IF EndsWithLatency(name) THEN prev
             ELSE IF IsMetricResult(res) /\ res.score >= 0
                  THEN Append(prev, res.score)
                  ELSE prev

RECURSIVE SumSeq(_)
SumSeq(s) == IF s = << >> THEN 0 ELSE Head(s) + SumSeq(Tail(s))

\* a variant without the second loop: 0.0 whenever the total weight is zero
NetScoreRawNoFallback(results, weights) ==
    LET t == NetTotals(results, weights, Len(results))
    IN  IF t.weight = 0 THEN FracZero ELSE Div(t.score, t.weight)

\* the value before the final clamp
NetScoreRaw(results, weights) ==
    LET t == NetTotals(results, weights, Len(results))
    IN  IF t.weight = 0
        THEN LET present == PresentScores(results, Len(results))
             IN  Frac(SumSeq(present), Max(Len(present), 1))
        ELSE \* total_score / total_weight; the weight is in hundredths on
             \* both sides, so the quotient is in score units
             Div(t.score, t.weight)

\* a variant that forgets the final clamp
CalculateNetScoreNoClamp(results, weights) == NetScoreRaw(results, weights)

CalculateNetScore(results, weights) == Clamp01(NetScoreRaw(results, weights))

----------------------------------------------------------------------------
(* Inputs of the net-score specification *)

\* how many entries of the registry the model runs and scores
MaxMetrics == 3

\* the last MaxMetrics entries of the registry
ActiveNames ==
    [i \in 1..MaxMetrics |->
        MetricNames[Len(MetricNames) - MaxMetrics + i]]

NetScoreValues == { Sentinel, 0, Half, ONE }
NetOutcomes == { MetricResult(s) : s \in NetScoreValues }
\* weights in hundredths: negative, zero, the two default magnitudes
NetWeightValues == { -10, 0, 10, 15 }

\* a weight table: any subset of the names, each with a weight
WeightTables(names) ==
    UNION { [S -> NetWeightValues] : S \in SUBSET names }

Range(s) == { s[i] : i \in DOMAIN s }

NetResultMaps ==
    { [i \in 1..MaxMetrics |-> << ActiveNames[i], f[i] >>] :
        f \in [1..MaxMetrics -> NetOutcomes] }
    \cup
    \* the empty map
    { << >> }
    \cup
    \* one map holding a stray latency key and a value that is no MetricResult
    { << << ActiveNames[1], MetricResult(ONE) >>,
         << "size_score_latency", MetricResult(0) >>,
         << ActiveNames[2], NotAResult >> >> }

InitNet ==
    /\ nsResults \in NetResultMaps
    /\ nsWeights \in WeightTables(Range(ActiveNames))
    /\ nsNet = None

IdleNet ==
    /\ nsResults = << >>
    /\ nsWeights = [n \in {} |-> 0]
    /\ nsNet = None

\* net_score = self._calculate_net_score(metric_results)
CalcNetScore ==
    /\ nsNet = None
    /\ nsNet' = Some(CalculateNetScore(nsResults, nsWeights))
    /\ UNCHANGED <<nsResults, nsWeights>>
    /\ UNCHANGED <<gateVars, reproVars, ctxVars, pipeVars, sandboxVars, reviewVars, ingestVars,
                   singletonVars>>

----------------------------------------------------------------------------
(* IngestValidator._apply_quality_gate *)

\* INGEST_QUALITY_GATE_METRICS, in the dict's insertion order
INGEST_QUALITY_GATE_METRICS ==
    << << "reproducibility", Half >>, << "code_quality", Half >>,
       << "license", Half >>, << "dataset_quality", Half >>,
       << "ramp_up_time", Half >>, << "bus_factor", Half >>,
       << "performance_claims", Half >>,
       << "dataset_and_code_score", Half >>, << "reviewedness", Half >> >>

GatedNames == { INGEST_QUALITY_GATE_METRICS[i][1] :
                  i \in DOMAIN INGEST_QUALITY_GATE_METRICS }

\* round(x, 3): x is in ten-thousandths, the result is a multiple of ten
\* units.  Python rounds the double nearest to x, so a decimal tie (last
\* digit 5) falls to whichever side the double lies on; it is resolved here
\* to the even thousandth, and the inputs of the model hold no tie.
Round3(x) ==
    LET q == x \div 10
        r == x % 10
    IN  IF r < 5 THEN 10 * q
        ELSE IF r > 5 THEN 10 * (q + 1)
        ELSE IF q % 2 = 0 THEN 10 * q ELSE 10 * (q + 1)

\* a variant of the loop body whose threshold is exclusive (<= for <)
GateEntryInclusive(audit, name, threshold) ==
    IF name \notin DOMAIN audit
    THEN << [metric |-> name, required |-> threshold,
             reason |-> "Metric not available"] >>
    ELSE IF audit[name] = Sentinel THEN << >>
    ELSE IF audit[name] <= threshold
    THEN << [metric |-> name, score |-> Round3(audit[name]),
             required |-> threshold,
             gap |-> Round3(audit[name] - threshold)] >>
    ELSE << >>

\* a variant of the loop body without the not-applicable branch
GateEntryNoSkip(audit, name, threshold) ==
    IF name \notin DOMAIN audit
    THEN << [metric |-> name, required |-> threshold,
             reason |-> "Metric not available"] >>
    ELSE IF audit[name] < threshold
    THEN << [metric |-> name, score |-> Round3(audit[name]),
             required |-> threshold,
             gap |-> Round3(audit[name] - threshold)] >>
    ELSE << >>

\* One pass of the loop body: the entries it appends for one gated metric.
\* Every gated field of an AuditResult is a float, so the isinstance test
\* of the third branch holds whenever it is reached.
GateEntry(audit, name, threshold) ==
    IF name \notin DOMAIN audit                    \* getattr(...) is None
    THEN << [metric |-> name, required |-> threshold,
             reason |-> "Metric not available"] >>
    ELSE IF audit[name] = Sentinel THEN << >>      \* score == -1: skipped
    ELSE IF audit[name] < threshold
    THEN << [metric |-> name, score |-> Round3(audit[name]),
             required |-> threshold,
             gap |-> Round3(audit[name] - threshold)] >>
    ELSE << >>

\* failing_metrics after the first k entries of the threshold table
RECURSIVE GateFailing(_, _)
GateFailing(audit, k) ==
    IF k = 0 THEN << >>
    ELSE GateFailing(audit, k - 1)
         \o GateEntry(audit, INGEST_QUALITY_GATE_METRICS[k][1],
                      INGEST_QUALITY_GATE_METRICS[k][2])

\* (passes, failing_metrics)
ApplyQualityGate(audit) ==
    LET failing == GateFailing(audit, Len(INGEST_QUALITY_GATE_METRICS))
    IN  [passes |-> Len(failing) = 0, failing |-> failing]

----------------------------------------------------------------------------
(* Inputs of the quality-gate specification *)

\* how many gate calls are made on one audit
MaxGateCalls == 2

\* scores of the gated fields other than reviewedness: below the threshold,
\* below it by less than a thousandth, exactly on it
GateScoreValues == { 4 * (ONE \div 10), Half - 4, Half }
\* reviewedness is the one field declared with ge=-1.0
ReviewednessValues == GateScoreValues \cup { Sentinel, -Half }

GateAudits ==
    { [n \in GatedNames |-> IF n = "reviewedness" THEN r ELSE f[n]] :
        f \in [GatedNames \ {"reviewedness"} -> GateScoreValues],
        r \in ReviewednessValues }

InitGate ==
    /\ gAudit \in GateAudits
    /\ gOut = None
    /\ gCalls = 0

IdleGate ==
    /\ gAudit = [n \in {} |-> 0]
    /\ gOut = None
    /\ gCalls = 0

\* passes, failing_metrics = self._apply_quality_gate(audit_result)
CallQualityGate ==
    /\ gCalls < MaxGateCalls
    /\ gOut' = Some(ApplyQualityGate(gAudit))
    /\ gCalls' = gCalls + 1
    /\ UNCHANGED gAudit
    /\ UNCHANGED <<netVars, reproVars, ctxVars, pipeVars, sandboxVars, reviewVars, ingestVars,
                   singletonVars>>

NextGate == CallQualityGate

----------------------------------------------------------------------------
(* Text.  A text (a code sample, an identifier) is a sequence of atoms; an
   atom is a piece of source text that no regular expression or substring
   test of the code looks inside.  A regular expression matches a text iff
   it matches one of its atoms, and `w in text` holds iff w is an atom of
   the text. *)

\* DANGEROUS_PATTERNS, in order (the backquote is written \x60)
DANGEROUS_PATTERNS ==
    << "os\\.system", "subprocess\\.", "exec\\(", "eval\\(", "__import__",
       "open\\(", "requests\\.", "urllib\\.", "socket\\.", "rm\\s+-",
       "rm\\s+/", ">", "\\|", "&&", ";", "\\x60", "\\$\\(" >>

\* re.search(pattern, atom, re.IGNORECASE) over the atoms of the model
AtomMatches(pattern, atom) ==
    \/ pattern = "os\\.system" /\ atom \in { "os.system", "OS.System" }
    \/ pattern = "requests\\." /\ atom = "requests."
    \/ pattern = "eval\\(" /\ atom = "eval("
    \/ pattern = ";" /\ atom = ";"
    \/ pattern = ">" /\ atom = ">"

\* re.search(pattern, code, re.IGNORECASE)
Search(pattern, code) ==
    \E i \in DOMAIN code : AtomMatches(pattern, code[i])

\* `word in code`
Contains(code, word) == \E i \in DOMAIN code : code[i] = word

\* a variant of the scan that returns True as soon as one pattern does not
\* match
RECURSIVE IsCodeSafeFirstPatternOnly(_, _)
IsCodeSafeFirstPatternOnly(code, k) ==
    IF k > Len(DANGEROUS_PATTERNS) THEN TRUE
    ELSE IF Search(DANGEROUS_PATTERNS[k], code) THEN FALSE
    ELSE TRUE

\* _is_code_safe, the loop from the k-th pattern on
RECURSIVE IsCodeSafeFrom(_, _)
IsCodeSafeFrom(code, k) ==
    IF k > Len(DANGEROUS_PATTERNS) THEN TRUE
    ELSE IF Search(DANGEROUS_PATTERNS[k], code) THEN FALSE
    ELSE IsCodeSafeFrom(code, k + 1)

IsCodeSafe(code) == IsCodeSafeFrom(code, 1)

\* Markdown: a sequence of segments, prose or a fenced block with its
\* language tag and its body.
Prose == [fence |-> FALSE, lang |-> "", body |-> << >>]
Fence(lang, body) == [fence |-> TRUE, lang |-> lang, body |-> body]

\* a variant that takes the body of every fence, whatever its language tag
RECURSIVE ExtractCodeBlocksAnyFence(_)
ExtractCodeBlocksAnyFence(content) ==
    IF content = << >> THEN << >>
    ELSE LET seg == Head(content)
             rest == ExtractCodeBlocksAnyFence(Tail(content))
         IN  IF seg.fence THEN << seg.body >> \o rest ELSE rest

\* re.findall over the fences tagged python or py, in any letter case
RECURSIVE ExtractCodeBlocks(_)
ExtractCodeBlocks(content) ==
    IF content = << >> THEN << >>
    ELSE LET seg == Head(content)
             rest == ExtractCodeBlocks(Tail(content))
         IN  IF seg.fence /\ seg.lang \in { "python", "py", "Python" }
             THEN << seg.body >> \o rest
             ELSE rest

\* the classification loop: safe_blocks after the first k code blocks
RECURSIVE SafeBlocks(_, _)
SafeBlocks(blocks, k) ==
    IF k = 0 THEN << >>
    ELSE IF IsCodeSafe(blocks[k])
         THEN Append(SafeBlocks(blocks, k - 1), blocks[k])
         ELSE SafeBlocks(blocks, k - 1)

\* str.replace(old, new) for an atom old and a text new
RECURSIVE Replace(_, _, _)
Replace(code, old, new) ==
    IF code = << >> THEN << >>
    ELSE (IF Head(code) = old THEN new ELSE << Head(code) >>)
         \o Replace(Tail(code), old, new)

\* safe_imports: the import line and the module_name tested for it
SafeImports ==
    << [line |-> << "import", "torch" >>, module |-> "torch"],
       [line |-> << "from", "transformers", "import", "AutoModel",
                    "AutoTokenizer" >>, module |-> "AutoTokenizer"],
       [line |-> << "import", "numpy", "as", "np" >>, module |-> "np"] >>

\* the import loop: fixed_code after the first k entries of safe_imports
RECURSIVE AddImports(_, _)
AddImports(code, k) ==
    IF k = 0 THEN code
    ELSE LET prev == AddImports(code, k - 1)
             imp  == SafeImports[k]
         IN  IF ~Contains(prev, imp.module) /\ ~Contains(prev, "import")
             THEN imp.line \o prev
             ELSE prev

\* placeholders, in order
Placeholders == << "model_name", "model_id", "\"model\"", "'model'" >>

\* the placeholder loop: fixed_code after the first k placeholders, each
\* replaced by f'"{model_id}"'
RECURSIVE ReplacePlaceholders(_, _, _)
ReplacePlaceholders(code, model_id, k) ==
    IF k = 0 THEN code
    ELSE Replace(ReplacePlaceholders(code, model_id, k - 1),
                 Placeholders[k], << "\"" >> \o model_id \o << "\"" >>)

\* a variant that fixes the text but adds no error handling around it
ApplySafeDebuggingFixesNoHandler(code, model_id) ==
    ReplacePlaceholders(AddImports(code, Len(SafeImports)), model_id,
                        Len(Placeholders))

\* _apply_safe_debugging_fixes
ApplySafeDebuggingFixes(code, model_id) ==
    << "try:" >>
    \o ReplacePlaceholders(AddImports(code, Len(SafeImports)), model_id,
                           Len(Placeholders))
    \o << "except Exception as e:", "print(Error)" >>

\* the ways one call of _execute_in_sandbox ends: the subprocess exits 0,
\* exits non-zero, overruns the timeout, or the call fails before the
\* subprocess ran (the except Exception branch)
SandboxOutcomes == { "exit0", "exit1", "timeout", "error" }

\* What the subprocess does with a text, statement by statement.  The
\* atoms of the model's texts are of six kinds:
\*   - "try:" opens the block that _apply_safe_debugging_fixes adds, and
\*     "except Exception as e:" is reached when its body ended normally;
\*   - the words of an import line other than its keyword, string literals
\*     (a replaced placeholder is one) and the handler's print do nothing;
\*   - an import keyword starts an import: it may raise ImportError, may
\*     outlast the deadline, or succeed, depending on the interpreter;
\*   - a bare undefined name and a raise statement raise an ordinary
\*     exception;
\*   - "while True:" never ends by itself;
\*   - any other atom is a statement of unknown effect: it may end the
\*     script normally, raise, exit non-zero by itself (or not compile), or
\*     outlast the deadline.
\* An exception raised inside the added try block is caught and the script
\* exits 0; outside it the wrapper's handler exits with 1.
ModuleWords ==
    { "torch", "transformers", "AutoModel", "AutoTokenizer", "numpy", "as",
      "np" }
LiteralAtoms ==
    { "\"", "org/bert", "org/", "os.system", "\"model\"", "'model'",
      "print(Error)" }
RaisingAtoms == { "raise ValueError", "model_name", "model_id" }

\* one run of a script: how it ended, and whether an ordinary exception
\* was raised in it
Run(outcome, raised) == [outcome |-> outcome, raised |-> raised]

RECURSIVE Effects(_, _)
Effects(text, inTry) ==
    IF text = << >> THEN { Run("exit0", FALSE) }
    ELSE LET a        == Head(text)
             uncaught == Run(IF inTry THEN "exit0" ELSE "exit1", TRUE)
         IN  IF a = "try:" THEN Effects(Tail(text), TRUE)
             ELSE IF a = "except Exception as e:"
             THEN { Run("exit0", FALSE) }
             ELSE IF a \in ModuleWords \cup LiteralAtoms
             THEN Effects(Tail(text), inTry)
             ELSE IF a \in { "import", "from" }
             THEN { uncaught, Run("timeout", FALSE) }
                  \cup Effects(Tail(text), inTry)
             ELSE IF a \in RaisingAtoms THEN { uncaught }
             ELSE IF a = "while True:" THEN { Run("timeout", FALSE) }
             ELSE { uncaught }
                  \cup { Run(o, FALSE) : o \in SandboxOutcomes \ { "error" } }

\* the runs of _execute_in_sandbox(text): those of the script, or the call
\* fails before the subprocess ran
RunOutcomes(text) == { Run("error", FALSE) } \cup Effects(text, FALSE)

\* a variant that reports no run as a success, so that no loop stops early
SandboxSuccessNever(outcome) == FALSE

\* a variant that reports success whatever the return code
SandboxSuccessAnyExit(outcome) == outcome \in { "exit0", "exit1" }

\* result['success']
SandboxSuccess(outcome) == outcome = "exit0"

----------------------------------------------------------------------------
(* Inputs of the reproducibility specification *)

\* the most segments a README of the model holds
MaxSegments == 2

SampleBodies ==
    { << "pass" >>,                       \* nothing to fix
      << "load", "model_name" >>,         \* holds a placeholder
      << "import", "np" >>,               \* holds an import already
      << "eval(", "pass", ";" >> }        \* matches two patterns

Segments ==
    { Prose, Fence("bash", << "pass" >>) }
    \cup { Fence("python", b) : b \in SampleBodies }

Readmes ==
    { None } \cup
    { Some(c) : c \in UNION { [1..n -> Segments] : n \in 0..MaxSegments } }

\* identifiers: an ordinary one, and one that holds a blacklisted word
ModelIds == { << "org/bert" >>, << "org/", "os.system" >> }

InitRepro ==
    /\ rReadme \in Readmes
    /\ rName \in ModelIds
    /\ rPc = "start"
    /\ rBlocks = << >>
    /\ rSafe = << >>
    /\ rIdx = 0
    /\ rScore = None
    /\ rExecuted = << >>
    /\ rPast = << >>

IdleRepro ==
    /\ rReadme = None
    /\ rName = << >>
    /\ rPc = "idle"
    /\ rBlocks = << >>
    /\ rSafe = << >>
    /\ rIdx = 0
    /\ rScore = None
    /\ rExecuted = << >>
    /\ rPast = << >>

\* `not context.readme_content`: None or the empty string
ReadmeIsEmpty(readme) == readme = None \/ Get(readme) = << >>

\* Steps 1 to 3: the README check, the extraction, the security scan
ReproBegin ==
    /\ rPc = "start"
    /\ IF ReadmeIsEmpty(rReadme)
       THEN /\ rScore' = Some(0)
            /\ rPc' = "done"
            /\ UNCHANGED <<rBlocks, rSafe, rIdx>>
       ELSE LET blocks == ExtractCodeBlocks(Get(rReadme))
                safe   == SafeBlocks(blocks, Len(blocks))
            IN  /\ rBlocks' = blocks
                /\ rSafe' = safe
                /\ IF blocks = << >> \/ safe = << >>
                   THEN /\ rScore' = Some(0)
                        /\ rPc' = "done"
                        /\ rIdx' = 0
                   ELSE /\ rScore' = None
                        /\ rPc' = "phase1"
                        /\ rIdx' = 1
    /\ UNCHANGED <<rReadme, rName, rExecuted, rPast>>
    /\ UNCHANGED <<netVars, gateVars, ctxVars, pipeVars, sandboxVars, reviewVars, ingestVars,
                   singletonVars>>

\* Step 4, one pass of the loop of _test_code_runs_safely: the sample at
\* rIdx runs unmodified; the first success returns 1.0, and after the last
\* failure the debugging loop starts.
RunUnmodified ==
    /\ rPc = "phase1"
    /\ \E run \in RunOutcomes(rSafe[rIdx]) :
          /\ rExecuted' = Append(rExecuted,
                 [phase |-> 1, sample |-> rSafe[rIdx],
                  text |-> rSafe[rIdx], outcome |-> run.outcome,
                  raised |-> run.raised])
          /\ IF SandboxSuccess(run.outcome)
             THEN /\ rScore' = Some(ONE)
                  /\ rPc' = "done"
                  /\ UNCHANGED rIdx
             ELSE IF rIdx < Len(rSafe)
             THEN /\ rIdx' = rIdx + 1
                  /\ UNCHANGED <<rScore, rPc>>
             ELSE /\ rIdx' = 1
                  /\ rPc' = "phase2"
                  /\ UNCHANGED rScore
    /\ UNCHANGED <<rReadme, rName, rBlocks, rSafe, rPast>>
    /\ UNCHANGED <<netVars, gateVars, ctxVars, pipeVars, sandboxVars, reviewVars, ingestVars,
                   singletonVars>>

\* Step 5, one pass of the loop of _test_code_with_debugging_safely: the
\* sample at rIdx is fixed and run; the first success returns 0.5, and after
\* the last failure the score is 0.0.
RunWithDebugging ==
    /\ rPc = "phase2"
    /\ \E run \in RunOutcomes(ApplySafeDebuggingFixes(rSafe[rIdx], rName)) :
          /\ rExecuted' = Append(rExecuted,
                 [phase |-> 2, sample |-> rSafe[rIdx],
                  text |-> ApplySafeDebuggingFixes(rSafe[rIdx], rName),
                  outcome |-> run.outcome, raised |-> run.raised])
          /\ IF SandboxSuccess(run.outcome)
             THEN /\ rScore' = Some(Half)
                  /\ rPc' = "done"
                  /\ UNCHANGED rIdx
             ELSE IF rIdx < Len(rSafe)
             THEN /\ rIdx' = rIdx + 1
                  /\ UNCHANGED <<rScore, rPc>>
             ELSE /\ rScore' = Some(0)
                  /\ rPc' = "done"
                  /\ UNCHANGED rIdx
    /\ UNCHANGED <<rReadme, rName, rBlocks, rSafe, rPast>>
    /\ UNCHANGED <<netVars, gateVars, ctxVars, pipeVars, sandboxVars, reviewVars, ingestVars,
                   singletonVars>>

----------------------------------------------------------------------------
(* Repeated calls of compute on one context, and the sample that never ends *)

\* how many times compute is called again on the same context
MaxRepeats == 1

\* the sample of test_infinite_loop_timeout
LoopBody == << "while True:", "pass" >>

CallSegments ==
    { Prose, Fence("bash", << "pass" >>), Fence("python", << "pass" >>),
      Fence("python", LoopBody) }

CallReadmes ==
    { None } \cup
    { Some(c) : c \in UNION { [1..n -> CallSegments] : n \in 0..MaxSegments } }

InitReproCalls ==
    /\ rReadme \in CallReadmes
    /\ rName = << "org/bert" >>
    /\ rPc = "start"
    /\ rBlocks = << >>
    /\ rSafe = << >>
    /\ rIdx = 0
    /\ rScore = None
    /\ rExecuted = << >>
    /\ rPast = << >>

\* samples whose statements are all of known effect: one that raises, and
\* one that names a placeholder and then loops
RetrySegments ==
    { Prose,
      Fence("python", << "raise ValueError" >>),
      Fence("python", << "model_name", "while True:", "pass" >>),
      Fence("python", << "model_id", "raise ValueError" >>) }

RetryReadmes ==
    { Some(c) : c \in UNION { [1..n -> RetrySegments] : n \in 1..MaxSegments } }

InitRetry ==
    /\ rReadme \in RetryReadmes
    /\ rName = << "org/bert" >>
    /\ rPc = "start"
    /\ rBlocks = << >>
    /\ rSafe = << >>
    /\ rIdx = 0
    /\ rScore = None
    /\ rExecuted = << >>
    /\ rPast = << >>

\* compute is called again with the same context: the metric object holds
\* no state of the earlier call, and every local starts afresh
ReproAgain ==
    /\ rPc = "done"
    /\ Len(rPast) < MaxRepeats
    /\ rPast' = Append(rPast, [score |-> Get(rScore), runs |-> Len(rExecuted)])
    /\ rPc' = "start"
    /\ rBlocks' = << >>
    /\ rSafe' = << >>
    /\ rIdx' = 0
    /\ rScore' = None
    /\ rExecuted' = << >>
    /\ UNCHANGED <<rReadme, rName>>
    /\ UNCHANGED <<netVars, gateVars, ctxVars, pipeVars, sandboxVars, reviewVars, ingestVars,
                   singletonVars>>

----------------------------------------------------------------------------
(* ReproducibilityMetric._execute_in_sandbox, one statement group per step *)

\* how many calls of _execute_in_sandbox are followed
MaxSandboxCalls == 2

\* the texts handed to the sandbox: safe samples and their fixed forms
SandboxTexts ==
    { << "pass" >>, LoopBody,
      ApplySafeDebuggingFixes(<< "pass" >>, << "org/bert" >>),
      ApplySafeDebuggingFixes(LoopBody, << "org/bert" >>) }

InitSandbox ==
    /\ sbCode = << >>
    /\ sbPc = "idle"
    /\ sbOpen = None
    /\ sbTempFile = None
    /\ sbDisk = {}
    /\ sbResult = None
    /\ sbCalls = 0

IdleSandbox ==
    /\ sbCode = << >>
    /\ sbPc = "off"
    /\ sbOpen = None
    /\ sbTempFile = None
    /\ sbDisk = {}
    /\ sbResult = None
    /\ sbCalls = 0

\* the result dicts, by their 'success' and 'error' keys
SandboxResult(success, error) == [success |-> success, error |-> error]

\* the call starts: temp_file = None
ExecuteInSandbox ==
    /\ sbPc = "idle"
    /\ sbCalls < MaxSandboxCalls
    /\ \E code \in SandboxTexts : sbCode' = code
    /\ sbCalls' = sbCalls + 1
    /\ sbTempFile' = None
    /\ sbOpen' = None
    /\ sbResult' = None
    /\ sbPc' = "create"
    /\ UNCHANGED sbDisk
    /\ UNCHANGED <<netVars, gateVars, reproVars, ctxVars, pipeVars, reviewVars, ingestVars,
                   singletonVars>>

\* tempfile.NamedTemporaryFile(mode='w', suffix='.py', delete=False, ...):
\* a new file appears on disk, or the call raises and none does
CreateTempFile ==
    /\ sbPc = "create"
    /\ \E raised \in BOOLEAN :
          IF raised
          THEN /\ sbPc' = "except"
               /\ UNCHANGED <<sbOpen, sbDisk>>
          ELSE /\ sbOpen' = Some(sbCalls)
               /\ sbDisk' = sbDisk \cup { sbCalls }
               /\ sbPc' = "write"
    /\ UNCHANGED <<sbCode, sbTempFile, sbResult, sbCalls>>
    /\ UNCHANGED <<netVars, gateVars, reproVars, ctxVars, pipeVars, reviewVars, ingestVars,
                   singletonVars>>

\* the body of the with block and its exit.  _create_execution_wrapper or
\* f.write may raise (the text cannot be encoded, the disk is full): the
\* with statement closes the file, which delete=False keeps, and temp_file
\* is still None.  Otherwise temp_file = f.name is executed, and closing
\* the file may still raise while the buffer is flushed.
WriteWrapper ==
    /\ sbPc = "write"
    /\ \E ends \in { "write raises", "close raises", "written" } :
          /\ sbTempFile' = IF ends = "write raises" THEN None ELSE sbOpen
          /\ sbPc' = IF ends = "written" THEN "run" ELSE "except"
    /\ UNCHANGED <<sbCode, sbOpen, sbDisk, sbResult, sbCalls>>
    /\ UNCHANGED <<netVars, gateVars, reproVars, ctxVars, pipeVars, reviewVars, ingestVars,
                   singletonVars>>

\* subprocess.run([sys.executable, temp_file], timeout=timeout, ...): the
\* two return statements of the inner try, or an exception that is not
\* TimeoutExpired
RunSubprocess ==
    /\ sbPc = "run"
    /\ \E run \in RunOutcomes(sbCode) :
          IF run.outcome = "error"
          THEN /\ sbPc' = "except"
               /\ UNCHANGED sbResult
          ELSE /\ sbResult' = Some(SandboxResult(SandboxSuccess(run.outcome),
                      IF run.outcome = "timeout" THEN "timeout" ELSE ""))
               /\ sbPc' = "finally"
    /\ UNCHANGED <<sbCode, sbOpen, sbTempFile, sbDisk, sbCalls>>
    /\ UNCHANGED <<netVars, gateVars, reproVars, ctxVars, pipeVars, reviewVars, ingestVars,
                   singletonVars>>

\* except Exception as e: return {'success': False, 'error': str(e), ...}
SandboxExcept ==
    /\ sbPc = "except"
    /\ sbResult' = Some(SandboxResult(FALSE, "exception"))
    /\ sbPc' = "finally"
    /\ UNCHANGED <<sbCode, sbOpen, sbTempFile, sbDisk, sbCalls>>
    /\ UNCHANGED <<netVars, gateVars, reproVars, ctxVars, pipeVars, reviewVars, ingestVars,
                   singletonVars>>

\* finally: if temp_file and os.path.exists(temp_file): os.unlink(temp_file)
\* (the unlink is taken to succeed), and the call returns
SandboxFinally ==
    /\ sbPc = "finally"
    /\ sbDisk' = IF IsSome(sbTempFile) /\ Get(sbTempFile) \in sbDisk
                 THEN sbDisk \ { Get(sbTempFile) }
                 ELSE sbDisk
    /\ sbPc' = "idle"
    /\ UNCHANGED <<sbCode, sbOpen, sbTempFile, sbResult, sbCalls>>
    /\ UNCHANGED <<netVars, gateVars, reproVars, ctxVars, pipeVars, reviewVars, ingestVars,
                   singletonVars>>

----------------------------------------------------------------------------
(* MetricScorer.score_model: enrichment, the parallel metrics, the audit *)

\* _get_default_config()["metric_weights"], in hundredths
DefaultWeights ==
    [n \in Range(MetricNames) \cup {"treescore"} |->
        IF n \in { "ramp_up_time", "performance_claims", "size_score",
                   "dataset_and_code_score" } THEN 15
        ELSE IF n = "treescore" THEN 0
        ELSE 10]

\* the constraint Field(..., ge=0.0, le=1.0) on MetricResult.score
ValidMetricScore(s) == 0 <= s /\ s <= ONE

\* A prose segment holding a repository URL; https tells whether the URL
\* is written with its scheme.  owner and repo are the two groups of the
\* patterns, repo a text whose last atom may be a punctuation mark.
Link(https, owner, repo) ==
    [fence |-> FALSE, lang |-> "link",
     body |-> << [https |-> https, owner |-> owner, repo |-> repo] >>]
IsLink(seg) == ~seg.fence /\ seg.lang = "link"

\* re.findall(pattern, content) for the two github_patterns: the first asks
\* for the scheme, the second matches a URL with or without it
RECURSIVE FindAll(_, _)
FindAll(content, needScheme) ==
    IF content = << >> THEN << >>
    ELSE LET seg  == Head(content)
             rest == FindAll(Tail(content), needScheme)
         IN  IF IsLink(seg) /\ (seg.body[1].https \/ ~needScheme)
             THEN << seg.body[1] >> \o rest
             ELSE rest

\* re.sub(r'[.,;:\)]$', '', repo)
StripTrailingPunct(repo) ==
    IF repo # << >> /\ repo[Len(repo)] \in { ".", ",", ";", ":", ")" }
    THEN SubSeq(repo, 1, Len(repo) - 1)
    ELSE repo

\* ParsedURL(url=github_url, category=CODE, ...)
CodeRepo(owner, repo) == [owner |-> owner, repo |-> repo]

\* the repositories the pattern loop appends for a README: at most one
DiscoveredRepos(content) ==
    LET withScheme == FindAll(content, TRUE)
        any        == FindAll(content, FALSE)
        matches    == IF withScheme # << >> THEN withScheme ELSE any
    IN  IF matches = << >> THEN << >>
        ELSE << CodeRepo(matches[1].owner,
                         StripTrailingPunct(matches[1].repo)) >>

\* what one call of the platform client ends with: an exception, or a value
FetchFailed == [ok |-> FALSE, value |-> None]
Fetched(v) == [ok |-> TRUE, value |-> v]

\* the README texts the platform client returns in the model (None included)
PipelineReadmes ==
    { None,
      Some(<< >>),
      Some(<< Prose >>),
      Some(<< Link(TRUE, "org", << "bert", "." >>),
              Fence("python", << "pass" >>) >>),
      Some(<< Link(FALSE, "fork", << "base", "," >>),
              Link(TRUE, "org", << "bert", "." >>) >>),
      Some(<< Fence("python", << "eval(", "pass", ";" >>) >>) }

\* the most repositories the context links before enrichment
MaxRepos == 1

InitialRepos ==
    { << >> } \cup
    { [i \in 1..n |-> CodeRepo("org", << "code" >>)] : n \in 1..MaxRepos }

\* the ParsedURL of the model under evaluation
ModelUrl == [category |-> "MODEL", name |-> "org/bert"]

Pending == [state |-> "pending", result |-> None]
Returned(r) == [state |-> "returned", result |-> Some(r)]
Raised == [state |-> "raised", result |-> None]
\* a task inside a blocking call: the sandbox subprocess that
\* ReproducibilityMetric runs in its own coroutine, and the worker thread
\* that asyncio.to_thread gave to ReviewednessMetric
InSandbox == [state |-> "sandbox", result |-> None]
InThread == [state |-> "thread", result |-> None]
Terminal(t) == t.state \in { "returned", "raised" }

InitPipe ==
    /\ cModelUrl = ModelUrl
    /\ cDatasets = << >>
    /\ cCodeRepos \in InitialRepos
    /\ cHfInfo = None
    /\ cReadme = None
    /\ cConfig = None
    /\ cFetched = None
    /\ pPc = "start"
    /\ pTask = [n \in Range(ActiveNames) |-> Pending]
    /\ pLoop = None
    /\ pOrder = << >>
    /\ pResults = None
    /\ pNet = None
    /\ pOutcome = None

IdlePipe ==
    /\ cModelUrl = ModelUrl
    /\ cDatasets = << >>
    /\ cCodeRepos = << >>
    /\ cHfInfo = None
    /\ cReadme = None
    /\ cConfig = None
    /\ cFetched = None
    /\ pPc = "idle"
    /\ pTask = [n \in {} |-> Pending]
    /\ pLoop = None
    /\ pOrder = << >>
    /\ pResults = None
    /\ pNet = None
    /\ pOutcome = None

\* a variant with one try block around the three fetches: the first
\* failure ends the enrichment and the fields not yet fetched stay None
EnrichedFieldsOneTry(info, readme, config) ==
    [hf_info |-> IF info.ok THEN info.value ELSE None,
     readme_content |-> IF info.ok /\ readme.ok THEN readme.value ELSE None,
     config_data |-> IF info.ok /\ readme.ok /\ config.ok
                     THEN config.value ELSE None]

\* the three cached fields after the three try blocks: each holds what its
\* fetch returned, or None when its fetch raised
EnrichedFields(info, readme, config) ==
    [hf_info |-> IF info.ok THEN info.value ELSE None,
     readme_content |-> IF readme.ok THEN readme.value ELSE None,
     config_data |-> IF config.ok THEN config.value ELSE None]

\* _enrich_context: the three fetches, each caught on its own, and the scan
\* of the README for a repository
EnrichContext ==
    /\ pPc = "start"
    /\ \E info \in { FetchFailed, Fetched(Some("info")) },
          readme \in { FetchFailed } \cup { Fetched(r) : r \in PipelineReadmes },
          config \in { FetchFailed, Fetched(Some("config")) } :
          LET fields == EnrichedFields(info, readme, config)
          IN  /\ cHfInfo' = fields.hf_info
              /\ cReadme' = fields.readme_content
              /\ cCodeRepos' =
                    IF fields.readme_content # None
                       /\ Get(fields.readme_content) # << >>
                    THEN cCodeRepos
                         \o DiscoveredRepos(Get(fields.readme_content))
                    ELSE cCodeRepos
              /\ cConfig' = fields.config_data
              /\ cFetched' = Some([info |-> info, readme |-> readme,
                                   config |-> config])
    /\ pPc' = "gather"
    /\ UNCHANGED <<cModelUrl, cDatasets>>
    /\ UNCHANGED <<pTask, pLoop, pOrder, pResults, pNet, pOutcome>>
    /\ UNCHANGED <<netVars, gateVars, reproVars, sandboxVars, reviewVars, ingestVars,
                   singletonVars>>

\* a variant in which the review-provenance check consumes the list it
\* walks (pop instead of a slice)
ContextWritesRepos(metric) ==
    IF metric = "reviewedness" THEN { "code_repos" } ELSE {}

\* the attributes of the context that compute of a metric assigns or
\* changes in place.  Reproducibility reads readme_content and
\* model_url.name, reviewedness tests code_repos and walks the copy
\* code_repos[:1]; neither assigns an attribute or calls a mutating method.
ContextWrites(metric) == {}

\* an attribute of the context after compute of the metric
Kept(metric, field, value) ==
    IF field \in ContextWrites(metric) THEN None ELSE value

\* the context across compute of the metric
ContextAcrossCompute(metric) ==
    /\ cModelUrl' = Kept(metric, "model_url", cModelUrl)
    /\ cDatasets' = Kept(metric, "datasets", cDatasets)
    /\ cCodeRepos' = Kept(metric, "code_repos", cCodeRepos)
    /\ cHfInfo' = Kept(metric, "hf_info", cHfInfo)
    /\ cReadme' = Kept(metric, "readme_content", cReadme)
    /\ cConfig' = Kept(metric, "config_data", cConfig)
    /\ UNCHANGED cFetched

\* the end of a compute that built MetricResult(score=s, latency=..): the
\* constructor validates the score and raises ValidationError when it fails
ComputeEndsWith(s) ==
    IF ValidMetricScore(s) THEN Returned(MetricResult(s)) ELSE Raised

\* A metric whose source is outside the model (ramp-up, bus factor, ...):
\* its compute returns an outcome with a score in [0, 1] or raises.
OpaqueMetricEnds(m) ==
    /\ pPc = "gather"
    /\ m \in Range(ActiveNames) \ { "reproducibility", "reviewedness" }
    /\ pTask[m] = Pending
    /\ pLoop = None
    /\ \E end \in { Raised } \cup { Returned(MetricResult(s)) : s \in { Half, ONE } } :
          pTask' = [pTask EXCEPT ![m] = end]
    /\ pOrder' = Append(pOrder, m)
    /\ UNCHANGED <<pPc, pLoop, pResults, pNet, pOutcome>>
    /\ UNCHANGED <<netVars, gateVars, reproVars, ctxVars, sandboxVars, reviewVars, ingestVars,
                   singletonVars>>

\* the scores _calculate_reproducibility_score can return for a README:
\* 0.0 alone when there is nothing safe to run, any of the three otherwise
ReproducibilityScores(readme) ==
    IF ReadmeIsEmpty(readme) THEN { 0 }
    ELSE LET blocks == ExtractCodeBlocks(Get(readme))
         IN  IF SafeBlocks(blocks, Len(blocks)) = << >>
             THEN { 0 }
             ELSE { 0, Half, ONE }

\* whether the README gives _calculate_reproducibility_score a safe sample
\* to run
HasSafeSample(readme) ==
    /\ ~ReadmeIsEmpty(readme)
    /\ LET blocks == ExtractCodeBlocks(Get(readme))
       IN  SafeBlocks(blocks, Len(blocks)) # << >>

\* ReproducibilityMetric.compute reaches _execute_in_sandbox.  compute
\* awaits only its own coroutine, which awaits nothing: subprocess.run is
\* called in the coroutine itself, so from here to the end of compute the
\* task holds the event-loop thread.
ReproducibilityStarts ==
    /\ pPc = "gather"
    /\ "reproducibility" \in DOMAIN pTask
    /\ pTask["reproducibility"] = Pending
    /\ pLoop = None
    /\ HasSafeSample(cReadme)
    /\ pTask' = [pTask EXCEPT !["reproducibility"] = InSandbox]
    /\ pLoop' = Some("reproducibility")
    /\ UNCHANGED <<pPc, pOrder, pResults, pNet, pOutcome>>
    /\ UNCHANGED <<netVars, gateVars, reproVars, ctxVars, sandboxVars, reviewVars, ingestVars,
                   singletonVars>>

\* ReproducibilityMetric.compute ends: after its sandbox runs, or at once
\* when there is nothing to run
ReproducibilityEnds ==
    /\ pPc = "gather"
    /\ "reproducibility" \in DOMAIN pTask
    /\ \/ pTask["reproducibility"] = InSandbox
          /\ pLoop = Some("reproducibility")
       \/ pTask["reproducibility"] = Pending
          /\ pLoop = None
          /\ ~HasSafeSample(cReadme)
    /\ \E s \in ReproducibilityScores(cReadme) :
          pTask' = [pTask EXCEPT !["reproducibility"] = ComputeEndsWith(s)]
    /\ pLoop' = None
    /\ pOrder' = Append(pOrder, "reproducibility")
    /\ ContextAcrossCompute("reproducibility")
    /\ UNCHANGED <<pPc, pResults, pNet, pOutcome>>
    /\ UNCHANGED <<netVars, gateVars, reproVars, sandboxVars, reviewVars, ingestVars,
                   singletonVars>>

\* what the clone and git log of the first repository yield: the clone
\* fails, git log fails, or the history holds so many reviewed and total
\* added code lines
GitOutcomes ==
    { [clone |-> FALSE, log |-> FALSE, reviewed |-> 0, total |-> 0],
      [clone |-> TRUE,  log |-> FALSE, reviewed |-> 0, total |-> 0],
      [clone |-> TRUE,  log |-> TRUE,  reviewed |-> 0, total |-> 0],
      [clone |-> TRUE,  log |-> TRUE,  reviewed |-> 6, total |-> 10],
      [clone |-> TRUE,  log |-> TRUE,  reviewed |-> 10, total |-> 10] }

\* _calculate_reviewedness_score_sync
ReviewednessScore(repos, git) ==
    IF repos = << >> THEN Sentinel
    ELSE IF ~git.clone THEN Sentinel
    ELSE IF ~git.log THEN Sentinel
    ELSE IF git.total = 0 THEN 0
    ELSE (git.reviewed * ONE) \div git.total

\* ReviewednessMetric.compute hands _calculate_reviewedness_score_sync to
\* asyncio.to_thread and suspends: the clone and git log run in a worker
\* thread, and the event-loop thread is released
ReviewednessStarts ==
    /\ pPc = "gather"
    /\ "reviewedness" \in DOMAIN pTask
    /\ pTask["reviewedness"] = Pending
    /\ pLoop = None
    /\ pTask' = [pTask EXCEPT !["reviewedness"] = InThread]
    /\ UNCHANGED <<pPc, pLoop, pOrder, pResults, pNet, pOutcome>>
    /\ UNCHANGED <<netVars, gateVars, reproVars, ctxVars, sandboxVars, reviewVars, ingestVars,
                   singletonVars>>

\* the worker thread has finished and compute resumes on the event loop
ReviewednessEnds ==
    /\ pPc = "gather"
    /\ "reviewedness" \in DOMAIN pTask
    /\ pTask["reviewedness"] = InThread
    /\ pLoop = None
    /\ \E git \in GitOutcomes :
          pTask' = [pTask EXCEPT !["reviewedness"] =
                       ComputeEndsWith(ReviewednessScore(cCodeRepos, git))]
    /\ pOrder' = Append(pOrder, "reviewedness")
    /\ ContextAcrossCompute("reviewedness")
    /\ UNCHANGED <<pPc, pLoop, pResults, pNet, pOutcome>>
    /\ UNCHANGED <<netVars, gateVars, reproVars, sandboxVars, reviewVars, ingestVars,
                   singletonVars>>

\* a variant of the collection in which one failure replaces every result
\* by the default (gather without return_exceptions)
RECURSIVE CollectResultsAllOrNothing(_, _)
CollectResultsAllOrNothing(task, k) ==
    IF k = 0 THEN << >>
    ELSE Append(CollectResultsAllOrNothing(task, k - 1),
                << ActiveNames[k],
                   IF \E n \in DOMAIN task : task[n].state = "raised"
                   THEN MetricResult(0)
                   ELSE Get(task[ActiveNames[k]].result) >>)

\* a variant of the collection that leaves a failed metric out of the map
RECURSIVE CollectResultsDroppingFailures(_, _)
CollectResultsDroppingFailures(task, k) ==
    IF k = 0 THEN << >>
    ELSE LET name == ActiveNames[k]
             t    == task[name]
             rest == CollectResultsDroppingFailures(task, k - 1)
         IN  IF t.state = "raised" THEN rest
             ELSE Append(rest, << name, Get(t.result) >>)

\* the results dictionary after the first k (name, result) pairs of the zip
RECURSIVE CollectResults(_, _)
CollectResults(task, k) ==
    IF k = 0 THEN << >>
    ELSE LET name == ActiveNames[k]
             t    == task[name]
         IN  Append(CollectResults(task, k - 1),
                    << name,
                       IF t.state = "raised" THEN MetricResult(0)
                       ELSE IF IsMetricResult(Get(t.result)) THEN Get(t.result)
                       ELSE MetricResult(0) >>)

\* gather has returned: the results dictionary is built and the net score
\* computed from it, with no suspension in between
Aggregate ==
    /\ pPc = "gather"
    /\ \A n \in DOMAIN pTask : Terminal(pTask[n])
    /\ LET results == CollectResults(pTask, Len(ActiveNames))
       IN  /\ pResults' = Some(results)
           /\ pNet' = Some(CalculateNetScore(results, DefaultWeights))
    /\ pPc' = "aggregated"
    /\ UNCHANGED <<pTask, pLoop, pOrder, pOutcome>>
    /\ UNCHANGED <<netVars, gateVars, reproVars, ctxVars, sandboxVars, reviewVars, ingestVars,
                   singletonVars>>

Exception(type) == [kind |-> "exception", type |-> type]

\* metric_results.get(name, default).score
ResultScore(results, name, default) ==
    IF \E i \in DOMAIN results : results[i][1] = name
    THEN results[CHOOSE i \in DOMAIN results : results[i][1] = name][2].score
    ELSE default

Audit(results, net) ==
    [kind |-> "audit",
     net_score |-> net,
     scores |-> [n \in Range(ActiveNames) |->
                    ResultScore(results, n, IF n = "reviewedness"
                                            THEN Sentinel ELSE 0)]]

\* The rest of score_model: the size breakdown is recomputed (by the size
\* metric, whose source is outside the model: it is taken to return), the
\* two default MetricResult objects are built, then the AuditResult.
BuildAudit ==
    /\ pPc = "aggregated"
    /\ pOutcome' =
          \* reproducibility_default = MetricResult(score=0.0, latency=0)
          IF ~ValidMetricScore(0) THEN Some(Exception("ValidationError"))
          \* reviewedness_default = MetricResult(score=-1.0, latency=0)
          ELSE IF ~ValidMetricScore(Sentinel)
               THEN Some(Exception("ValidationError"))
          ELSE Some(Audit(Get(pResults), Get(pNet)))
    /\ pPc' = "done"
    /\ UNCHANGED <<pTask, pLoop, pOrder, pResults, pNet>>
    /\ UNCHANGED <<netVars, gateVars, reproVars, ctxVars, sandboxVars, reviewVars, ingestVars,
                   singletonVars>>

----------------------------------------------------------------------------
(* ReviewednessMetric: the git log text, its parsing, and compute *)

(* A line of text is a sequence of atoms; "|" and the tab "\t" are atoms of
   their own, so that `'|' in line`, `'\t' in line` and the two splits are
   computed on the line itself. *)

HasAtom(line, a) == \E i \in DOMAIN line : line[i] = a

\* the position of the first atom a of the line, 0 when there is none
RECURSIVE FirstAtom(_, _, _)
FirstAtom(line, a, i) ==
    IF i > Len(line) THEN 0
    ELSE IF line[i] = a THEN i
    ELSE FirstAtom(line, a, i + 1)

\* line.split(sep): the fields between the separators
RECURSIVE Split(_, _)
Split(line, sep) ==
    LET i == FirstAtom(line, sep, 1)
    IN  IF i = 0 THEN << line >>
        ELSE << SubSeq(line, 1, i - 1) >>
             \o Split(SubSeq(line, i + 1, Len(line)), sep)

\* line.split('|', 1)[1], for a line that holds '|'
AfterFirstBar(line) ==
    SubSeq(line, FirstAtom(line, "|", 1) + 1, Len(line))

\* a commit and the files it changed, as git knows them
Commit(hash, subject, files) ==
    [hash |-> hash, subject |-> subject, files |-> files]
ChangedFile(added, deleted, name) ==
    [added |-> added, deleted |-> deleted, name |-> name]

\* git log --all --numstat --pretty=format:%H|%s, for one commit: the
\* header, one numstat line per file, and the separating blank line
RECURSIVE NumstatLines(_)
NumstatLines(files) ==
    IF files = << >> THEN << >>
    ELSE << << Head(files).added, "\t", Head(files).deleted, "\t",
               Head(files).name >> >>
         \o NumstatLines(Tail(files))

HeaderLine(c) == << c.hash, "|" >> \o c.subject

RECURSIVE GitLogOutput(_)
GitLogOutput(history) ==
    IF history = << >> THEN << >>
    ELSE << HeaderLine(Head(history)) >>
         \o NumstatLines(Head(history).files)
         \o << << >> >>
         \o GitLogOutput(Tail(history))

\* re.search over the four pr_patterns: every one of them asks for '#'
\* followed by a digit
HasPrReference(message) ==
    \E i \in DOMAIN message : message[i] \in { "#12", "(#7)" }

\* commit_message.lower().startswith('merge')
StartsWithMerge(message) ==
    message # << >> /\ message[1] \in { "Merge", "merge", "MERGE" }

\* _is_reviewed_commit
IsReviewedCommit(message) ==
    HasPrReference(message) \/ StartsWithMerge(message)

\* _is_code_file, decided by the end of the file name: .py is a code
\* extension, .bin a weight extension, .txt neither (the files of the
\* model are all smaller than MAX_CODE_FILE_SIZE)
IsCodeFile(filename) ==
    /\ filename # << >>
    /\ filename[Len(filename)] \in { "a.py", "b.py" }

\* int(added_str) if added_str != '-' else 0; None stands for ValueError
ParseAdded(added_str) ==
    IF added_str = << "-" >> THEN Some(0)
    ELSE IF added_str = << "0" >> THEN Some(0)
    ELSE IF added_str = << "4" >> THEN Some(4)
    ELSE IF added_str = << "6" >> THEN Some(6)
    ELSE None

\* the loop of _parse_git_log_output after the first k lines: the two
\* counters and current_is_reviewed; counted lists, for every numstat
\* line that was counted, its file and the flag its lines were counted
\* under
RECURSIVE ParseLines(_, _)
ParseLines(lines, k) ==
    IF k = 0 THEN [reviewed |-> 0, total |-> 0, is_reviewed |-> FALSE,
                   counted |-> << >>]
    ELSE LET st   == ParseLines(lines, k - 1)
             line == lines[k]                           \* line.strip()
         IN  IF line = << >> THEN st                    \* if not line
             ELSE IF HasAtom(line, "|") /\ ~HasAtom(line, "\t")
             THEN [st EXCEPT !.is_reviewed =
                               IsReviewedCommit(AfterFirstBar(line))]
             ELSE IF HasAtom(line, "\t")
             THEN LET parts == Split(line, "\t")
                  IN  IF Len(parts) < 3 THEN st
                      ELSE IF ~IsCodeFile(parts[3]) THEN st
                      ELSE IF ParseAdded(parts[1]) = None THEN st
                      ELSE LET added == Get(ParseAdded(parts[1]))
                           IN  [st EXCEPT
                                  !.reviewed = IF st.is_reviewed
                                               THEN @ + added ELSE @,
                                  !.total = @ + added,
                                  !.counted = Append(@, << parts[3],
                                                          st.is_reviewed >>)]
             ELSE st

\* _parse_git_log_output: (reviewed_lines, total_lines)
ParseGitLogOutput(lines) ==
    LET st == ParseLines(lines, Len(lines))
    IN  << st.reviewed, st.total >>

----------------------------------------------------------------------------
(* Inputs of the reviewedness specification *)

\* the most commits a history of the model holds
MaxCommits == 2

Subjects ==
    { << "Merge", "pull", "request", "#12" >>,
      << "docs", "(#7)" >>,
      << "fix", "bug" >>,
      << "fix", "merge", "of", "C#" >>,       \* no leading merge, no #digit
      << "fix", "\t", "typo" >> }             \* a subject that holds a tab

FileLists ==
    { << ChangedFile("6", "1", "a.py") >>,
      << ChangedFile("4", "0", "b.py") >>,
      << ChangedFile("-", "-", "w.bin"), ChangedFile("4", "0", "notes.txt") >> }

Commits == { Commit("c0ffee", s, f) : s \in Subjects, f \in FileLists }

Histories == UNION { [1..n -> Commits] : n \in 0..MaxCommits }

ReviewRepos ==
    { << >>,
      << CodeRepo("org", << "code" >>) >>,
      << CodeRepo("org", << "code" >>), CodeRepo("org", << "more" >>) >> }

NoGit == [clone |-> FALSE, log |-> FALSE, reviewed |-> 0, total |-> 0]

InitReview ==
    /\ vRepos \in ReviewRepos
    /\ vHistory \in Histories
    /\ vPc = "start"
    /\ vGit = NoGit
    /\ vScore = None
    /\ vResult = None
    /\ vCloned = << >>
    /\ vCleanups = 0
    /\ vClones = {}

IdleReview ==
    /\ vRepos = << >>
    /\ vHistory = << >>
    /\ vPc = "idle"
    /\ vGit = NoGit
    /\ vScore = None
    /\ vResult = None
    /\ vCloned = << >>
    /\ vCleanups = 0
    /\ vClones = {}

\* a variant of the loop header that walks every linked repository
ReposToAnalyzeAll(code_repos) == code_repos

\* context.code_repos[:1]
ReposToAnalyze(code_repos) ==
    SubSeq(code_repos, 1, IF Len(code_repos) < 1 THEN Len(code_repos) ELSE 1)

\* the history of a repository other than the first one
OtherHistory ==
    << Commit("beef", << "Merge", "pull", "request", "#12" >>,
              << ChangedFile("6", "1", "a.py") >>) >>

\* the commits of the k-th linked repository
RepoHistory(k) == IF k = 1 THEN vHistory ELSE OtherHistory

\* a variant of the try statement whose cleanup is skipped when the body
\* ended in the except branch
FinallyOnReturnOnly(exit) ==
    IF exit = "exception" THEN "return" ELSE "cleanup"

\* try ... except ... finally: however the body ended, by a return or
\* through the except branch, the finally block runs next
Finally(exit) == "cleanup"

\* _calculate_reviewedness_score_sync starts in the worker thread: without
\* a repository it returns -1.0 at once, before any inspector exists;
\* otherwise it creates the GitInspector and enters the try block
ReviewBegin ==
    /\ vPc = "start"
    /\ IF vRepos = << >>
       THEN /\ vScore' = Some(ReviewednessScore(vRepos, vGit))
            /\ vPc' = "return"
       ELSE /\ vPc' = "clone"
            /\ UNCHANGED vScore
    /\ UNCHANGED <<vRepos, vHistory, vGit, vResult, vCloned, vCleanups,
                   vClones>>
    /\ UNCHANGED <<netVars, gateVars, reproVars, ctxVars, pipeVars, sandboxVars, ingestVars,
                   singletonVars>>

\* git_inspector.clone_repo(code_repo) for the next repository of
\* code_repos[:1]: a path, a falsy value (the loop continues, and ends
\* with -1.0 after its last repository), or an exception (the except
\* branch returns -1.0).  A failed clone may leave a partial directory.
CloneRepo ==
    /\ vPc = "clone"
    /\ LET repos == ReposToAnalyze(vRepos)
           k     == Len(vCloned) + 1
       IN  /\ vCloned' = Append(vCloned, repos[k])
           /\ \E clone \in { "path", "none", "raises" } :
                 IF clone = "path"
                 THEN /\ vGit' = [vGit EXCEPT !.clone = TRUE]
                      /\ vClones' = vClones \cup { k }
                      /\ vPc' = "log"
                      /\ UNCHANGED vScore
                 ELSE /\ vClones' \in { vClones, vClones \cup { k } }
                      /\ UNCHANGED vGit
                      /\ IF clone = "none" /\ k < Len(repos)
                         THEN /\ vPc' = "clone"
                              /\ UNCHANGED vScore
                         ELSE /\ vScore' = Some(ReviewednessScore(vRepos,
                                                                  vGit))
                              /\ vPc' = Finally(IF clone = "none"
                                                THEN "return"
                                                ELSE "exception")
    /\ UNCHANGED <<vRepos, vHistory, vResult, vCleanups>>
    /\ UNCHANGED <<netVars, gateVars, reproVars, ctxVars, pipeVars, sandboxVars, ingestVars,
                   singletonVars>>

\* _analyze_git_history and the rest of the loop body: git log runs and its
\* output is parsed, or it times out, is not installed, exits non-zero or
\* fails otherwise, which all yield (-1, -1); the body returns its score
AnalyzeGitHistory ==
    /\ vPc = "log"
    /\ \E log \in { "ok", "timeout", "not found", "nonzero", "raises" } :
          LET counts == ParseGitLogOutput(
                            GitLogOutput(RepoHistory(Len(vCloned))))
              git    == IF log = "ok"
                        THEN [vGit EXCEPT !.log = TRUE,
                                          !.reviewed = counts[1],
                                          !.total = counts[2]]
                        ELSE vGit
          IN  /\ vGit' = git
              /\ vScore' = Some(ReviewednessScore(vRepos, git))
    /\ vPc' = Finally("return")
    /\ UNCHANGED <<vRepos, vHistory, vResult, vCloned, vCleanups, vClones>>
    /\ UNCHANGED <<netVars, gateVars, reproVars, ctxVars, pipeVars, sandboxVars, ingestVars,
                   singletonVars>>

\* finally: git_inspector.cleanup(), which removes the temporary
\* directories of the inspector
InspectorCleanup ==
    /\ vPc = "cleanup"
    /\ vCleanups' = vCleanups + 1
    /\ vClones' = {}
    /\ vPc' = "return"
    /\ UNCHANGED <<vRepos, vHistory, vGit, vScore, vResult, vCloned>>
    /\ UNCHANGED <<netVars, gateVars, reproVars, ctxVars, pipeVars, sandboxVars, ingestVars,
                   singletonVars>>

\* back in compute: return MetricResult(score=score, latency=get_latency())
ReviewednessReturns ==
    /\ vPc = "return"
    /\ vResult' = Some(ComputeEndsWith(Get(vScore)))
    /\ vPc' = "done"
    /\ UNCHANGED <<vRepos, vHistory, vGit, vScore, vCloned, vCleanups,
                   vClones>>
    /\ UNCHANGED <<netVars, gateVars, reproVars, ctxVars, pipeVars, sandboxVars, ingestVars,
                   singletonVars>>

----------------------------------------------------------------------------
(* IngestValidator.validate_ingest_candidate *)

\* the most calls of validate_ingest_candidate that are followed
MaxValidations == 3

\* a variant in which the list of the call before is carried over
FailingMetricsKept(previous) == previous

\* failing_metrics = []: a fresh list, whatever the call before returned
FailingMetricsInit(previous) == << >>

\* the loop of _apply_quality_gate over the items of the table it reads,
\* appending to the list it started with
RECURSIVE GateFailingOn(_, _, _, _)
GateFailingOn(table, audit, start, k) ==
    IF k = 0 THEN start
    ELSE GateFailingOn(table, audit, start, k - 1)
         \o GateEntry(audit, table[k][1], table[k][2])

\* _apply_quality_gate, reading the table as it is when the call is made
ApplyQualityGateOn(table, audit, previous) ==
    LET failing == GateFailingOn(table, audit, FailingMetricsInit(previous),
                                 Len(table))
    IN  [passes |-> Len(failing) = 0, failing |-> failing]

\* the audit object after the gate read it: no attribute is assigned
AuditAfterGate(audit) == audit

\* a variant of the response that lists failing_metrics whatever the gate
\* decided
IngestResponseAlwaysListing(passes, failing) ==
    [is_ingestible |-> passes,
     artifact_id |-> IF passes THEN Some("uuid4") ELSE None,
     failing_metrics |-> Some(failing),
     error |-> None]

\* the response dict of Step 5; a key that is absent is None here
IngestResponse(passes, failing) ==
    [is_ingestible |-> passes,
     artifact_id |-> IF passes THEN Some("uuid4") ELSE None,
     failing_metrics |-> IF ~passes THEN Some(failing) ELSE None,
     error |-> None]

\* the details dict of the except branch
IngestError(type) ==
    [is_ingestible |-> FALSE, artifact_id |-> None,
     failing_metrics |-> None, error |-> Some(type)]

\* the audits a scorer hands back in the model: every gated field on the
\* threshold, but for reproducibility and reviewedness
IngestAudits ==
    { [n \in GatedNames |->
          IF n = "reproducibility" THEN p
          ELSE IF n = "reviewedness" THEN r ELSE Half] :
        p \in { 4 * (ONE \div 10), Half }, r \in { Sentinel, Half - 4, Half } }

\* what self.scorer.score_model(context) ends with: an exception, or an
\* audit (the scorer is an attribute of the validator and the tests of the
\* repository replace it by one that returns)
ScorerOutcomes == { Raised } \cup { Returned(a) : a \in IngestAudits }

InitIngest ==
    /\ iTable = INGEST_QUALITY_GATE_METRICS
    /\ iLog = << >>

IdleIngest ==
    /\ iTable = << >>
    /\ iLog = << >>

\* the failing_metrics list the call before this one returned
PreviousFailing(log) ==
    IF log = << >> \/ log[Len(log)].gate = None THEN << >>
    ELSE Get(log[Len(log)].gate).failing

\* One call of validate_ingest_candidate, from the scoring to the return:
\* the try block ends in `return passes, response`, or an exception raised
\* by the scoring ends it in the except branch.
ValidateIngestCandidate ==
    /\ Len(iLog) < MaxValidations
    /\ \E scored \in ScorerOutcomes :
          iLog' = Append(iLog,
             IF scored.state = "raised"
             THEN [scored |-> scored, gate |-> None, audit_after |-> None,
                   passes |-> FALSE,
                   details |-> IngestError("ValidationError")]
             ELSE LET audit == Get(scored.result)
                      out   == ApplyQualityGateOn(iTable, audit,
                                                  PreviousFailing(iLog))
                  IN  [scored |-> scored, gate |-> Some(out),
                       audit_after |-> Some(AuditAfterGate(audit)),
                       passes |-> out.passes,
                       details |-> IngestResponse(out.passes, out.failing)])
    /\ iTable' = iTable
    /\ UNCHANGED <<netVars, gateVars, reproVars, ctxVars, pipeVars, sandboxVars, reviewVars,
                   singletonVars>>

----------------------------------------------------------------------------
(* The validator singleton of ingest.py *)

\* how many validate_and_ingest coroutines run in the process, and how many
\* direct calls of get_validator are made beside them
MaxTasks == 2
MaxGetCalls == 2

\* the config_path arguments: the default and another file
ConfigPaths == { "config/weights.yaml", "alt.yaml" }

Tasks == 1..MaxTasks

InitSingleton ==
    /\ uValidator = None
    /\ uInstances = << >>
    /\ uTask = [t \in Tasks |-> [pc |-> "idle", validator |-> None]]
    /\ uCalls = << >>

IdleSingleton ==
    /\ uValidator = None
    /\ uInstances = << >>
    /\ uTask = << >>
    /\ uCalls = << >>

\* a variant that builds a new validator whenever the config_path differs
\* from that of the instance held
GetOrCreatePerConfig(current, instances, config_path) ==
    IF current = None \/ instances[Get(current)] # config_path
    THEN [validator |-> Some(Len(instances) + 1),
          instances |-> Append(instances, config_path)]
    ELSE [validator |-> current, instances |-> instances]

\* the body of get_validator: IngestValidator(config_path) is constructed
\* only while _validator is None.  The body holds no await, so no other
\* coroutine runs between the test and the assignment.
GetOrCreate(current, instances, config_path) ==
    IF current = None
    THEN [validator |-> Some(Len(instances) + 1),
          instances |-> Append(instances, config_path)]
    ELSE [validator |-> current, instances |-> instances]

\* await get_validator(config_path), called directly
GetValidator ==
    /\ Cardinality({ i \in DOMAIN uCalls : uCalls[i].fn = "get_validator" })
           < MaxGetCalls
    /\ \E config_path \in ConfigPaths :
          LET got == GetOrCreate(uValidator, uInstances, config_path)
          IN  /\ uValidator' = got.validator
              /\ uInstances' = got.instances
              /\ uCalls' = Append(uCalls,
                     [fn |-> "get_validator", config_path |-> config_path,
                      returned |-> Get(got.validator)])
    /\ UNCHANGED uTask
    /\ UNCHANGED <<netVars, gateVars, reproVars, ctxVars, pipeVars,
                   sandboxVars, reviewVars, ingestVars>>

\* validate_and_ingest up to its second await: the validator is fetched
ValidateAndIngest ==
    /\ \E t \in DOMAIN uTask, config_path \in ConfigPaths :
          /\ uTask[t].pc = "idle"
          /\ LET got == GetOrCreate(uValidator, uInstances, config_path)
             IN  /\ uValidator' = got.validator
                 /\ uInstances' = got.instances
                 /\ uTask' = [uTask EXCEPT ![t] =
                        [pc |-> "validating", validator |-> got.validator]]
                 /\ uCalls' = Append(uCalls,
                        [fn |-> "validate_and_ingest",
                         config_path |-> config_path,
                         returned |-> Get(got.validator)])
    /\ UNCHANGED <<netVars, gateVars, reproVars, ctxVars, pipeVars,
                   sandboxVars, reviewVars, ingestVars>>

\* return await validator.validate_ingest_candidate(model_name): the
\* coroutine ends, on the validator it fetched
ValidateAndIngestReturns ==
    /\ \E t \in DOMAIN uTask :
          /\ uTask[t].pc = "validating"
          /\ uTask' = [uTask EXCEPT ![t].pc = "done"]
    /\ UNCHANGED <<uValidator, uInstances, uCalls>>
    /\ UNCHANGED <<netVars, gateVars, reproVars, ctxVars, pipeVars,
                   sandboxVars, reviewVars, ingestVars>>

NextSingleton == GetValidator \/ ValidateAndIngest \/ ValidateAndIngestReturns

SingletonInit == InitSingleton /\ IdleNet /\ IdleGate /\ IdleRepro /\ IdlePipe /\ IdleSandbox /\ IdleReview /\ IdleIngest

SpecSingleton == SingletonInit /\ [][NextSingleton]_vars

----------------------------------------------------------------------------
(* The specifications *)

GateInit == InitGate /\ IdleNet /\ IdleRepro /\ IdlePipe /\ IdleSandbox /\ IdleReview /\ IdleIngest /\ IdleSingleton

SpecGate == GateInit /\ [][NextGate]_vars

NextNet == CalcNetScore

NetInit == InitNet /\ IdleGate /\ IdleRepro /\ IdlePipe /\ IdleSandbox /\ IdleReview /\ IdleIngest /\ IdleSingleton

SpecNet == NetInit /\ [][NextNet]_vars

NextRepro == ReproBegin \/ RunUnmodified \/ RunWithDebugging

ReproInit == InitRepro /\ IdleNet /\ IdleGate /\ IdlePipe /\ IdleSandbox /\ IdleReview /\ IdleIngest /\ IdleSingleton

SpecRepro == ReproInit /\ [][NextRepro]_vars

RetryInit == InitRetry /\ IdleNet /\ IdleGate /\ IdlePipe /\ IdleSandbox /\ IdleReview /\ IdleIngest /\ IdleSingleton

SpecRetry == RetryInit /\ [][NextRepro]_vars

NextIngest == ValidateIngestCandidate

IngestInit == InitIngest /\ IdleNet /\ IdleGate /\ IdleRepro /\ IdlePipe /\ IdleSandbox /\ IdleReview /\ IdleSingleton

SpecIngest == IngestInit /\ [][NextIngest]_vars

NextReview ==
    \/ ReviewBegin
    \/ CloneRepo
    \/ AnalyzeGitHistory
    \/ InspectorCleanup
    \/ ReviewednessReturns

ReviewInit == InitReview /\ IdleNet /\ IdleGate /\ IdleRepro /\ IdlePipe /\ IdleSandbox /\ IdleIngest /\ IdleSingleton

SpecReview == ReviewInit /\ [][NextReview]_vars

NextSandbox ==
    \/ ExecuteInSandbox
    \/ CreateTempFile
    \/ WriteWrapper
    \/ RunSubprocess
    \/ SandboxExcept
    \/ SandboxFinally

SandboxInit == InitSandbox /\ IdleNet /\ IdleGate /\ IdleRepro /\ IdlePipe /\ IdleReview /\ IdleIngest /\ IdleSingleton

SpecSandbox == SandboxInit /\ [][NextSandbox]_vars

NextReproCalls == ReproBegin \/ RunUnmodified \/ RunWithDebugging \/ ReproAgain

ReproCallsInit == InitReproCalls /\ IdleNet /\ IdleGate /\ IdlePipe /\ IdleSandbox /\ IdleReview /\ IdleIngest /\ IdleSingleton

SpecReproCalls == ReproCallsInit /\ [][NextReproCalls]_vars

Init == InitPipe /\ IdleNet /\ IdleGate /\ IdleRepro /\ IdleSandbox /\ IdleReview /\ IdleIngest /\ IdleSingleton

Next ==
    \/ EnrichContext
    \/ \E m \in Range(ActiveNames) : OpaqueMetricEnds(m)
    \/ ReproducibilityStarts
    \/ ReproducibilityEnds
    \/ ReviewednessStarts
    \/ ReviewednessEnds
    \/ Aggregate
    \/ BuildAudit

Spec == Init /\ [][Next]_vars

----------------------------------------------------------------------------
(* Properties of the net score *)

RECURSIVE SumOver(_, _, _)
\* the sum of f[i] * g[i] over the indices i of S
SumOver(S, f, g) ==
    IF S = {} THEN 0
    ELSE LET i == CHOOSE x \in S : TRUE
         IN  f[i] * g[i] + SumOver(S \ {i}, f, g)

\* the entries of a result map that are metric outcomes with an applicable
\* score: a metric of the registry, holding a score other than the sentinel
ApplicableIdx(results) ==
    { i \in DOMAIN results :
        /\ results[i][1] \in Range(MetricNames)
        /\ IsMetricResult(results[i][2])
        /\ results[i][2].score # Sentinel }

ScoreAt(results) ==
    [i \in ApplicableIdx(results) |-> results[i][2].score]
WeightAt(results, weights) ==
    [i \in ApplicableIdx(results) |-> WeightOf(weights, results[i][1])]
Ones(results) == [i \in ApplicableIdx(results) |-> 1]

\* the total weight of the applicable metrics
ApplicableWeight(results, weights) ==
    SumOver(ApplicableIdx(results), WeightAt(results, weights), Ones(results))
\* the weighted sum of the applicable scores
ApplicableScore(results, weights) ==
    SumOver(ApplicableIdx(results), ScoreAt(results),
            WeightAt(results, weights))

\* C3: for every map of metric outcomes and every weight table (weights
\* missing, zero or negative included) the net score returned lies in
\* [0.0, 1.0].
C3_NetScoreInUnitInterval ==
    IsSome(nsNet) =>
        /\ Get(nsNet).d > 0
        /\ 0 <= Get(nsNet).n
        /\ Get(nsNet).n <= ONE * Get(nsNet).d

\* C3 witness: a net score was returned for a table with a negative weight
\* whose weighted mean lies below 0.0, so that the clamp acted.
C3_Witness ==
    /\ IsSome(nsNet)
    /\ \E n \in DOMAIN nsWeights : nsWeights[n] < 0
    /\ NetScoreRaw(nsResults, nsWeights).n < 0
    /\ Get(nsNet) = FracZero

\* C4: when the total weight of the applicable metrics is not zero, the net
\* score is (sum of score * weight) / (sum of weight), both sums over exactly
\* the metrics whose score is not the sentinel, clamped to [0, 1]: a metric
\* scoring -1.0 adds to neither sum and the divisor is the sum of the
\* applicable weights.
C4_WeightedMeanOverApplicable ==
    (IsSome(nsNet) /\ ApplicableWeight(nsResults, nsWeights) # 0) =>
        FracEq(Get(nsNet),
               Clamp01(Div(ApplicableScore(nsResults, nsWeights),
                           ApplicableWeight(nsResults, nsWeights))))

\* C4 witness: a net score was returned for a map in which one metric holds
\* the sentinel under a positive weight and another an applicable score
\* under a positive weight, and the result is strictly inside (0, 1).
C4_Witness ==
    /\ IsSome(nsNet)
    /\ \E i, j \in DOMAIN nsResults :
          /\ IsMetricResult(nsResults[i][2])
          /\ IsMetricResult(nsResults[j][2])
          /\ nsResults[i][2].score = Sentinel
          /\ WeightOf(nsWeights, nsResults[i][1]) > 0
          /\ nsResults[j][2].score = Half
          /\ WeightOf(nsWeights, nsResults[j][1]) > 0
    /\ ApplicableWeight(nsResults, nsWeights) # 0
    /\ 0 < Get(nsNet).n
    /\ Get(nsNet).n < ONE * Get(nsNet).d

----------------------------------------------------------------------------
(* Properties of the quality gate *)

ThresholdOf(name) ==
    LET i == CHOOSE k \in DOMAIN INGEST_QUALITY_GATE_METRICS :
                 INGEST_QUALITY_GATE_METRICS[k][1] = name
    IN  INGEST_QUALITY_GATE_METRICS[i][2]

\* the gated metrics that hold an applicable score strictly below threshold
BelowThreshold(audit) ==
    { n \in GatedNames : audit[n] # Sentinel /\ audit[n] < ThresholdOf(n) }

FailingNames(out) == { out.failing[i].metric : i \in DOMAIN out.failing }

\* one entry per failing metric, none for any other, passes iff none
GateListsExactlyTheFailing(audit, out) ==
    /\ FailingNames(out) = BelowThreshold(audit)
    /\ Len(out.failing) = Cardinality(BelowThreshold(audit))
    /\ out.passes <=> (Len(out.failing) = 0)

\* C5 as stated: the failing list holds exactly one entry per gated metric
\* whose score is not the sentinel and is strictly below its threshold, each
\* entry's gap equals score minus threshold, and passes is true iff the list
\* is empty.
C5_GapIsExactDifference ==
    IsSome(gOut) =>
        /\ GateListsExactlyTheFailing(gAudit, Get(gOut))
        /\ \A i \in DOMAIN Get(gOut).failing :
              LET e == Get(gOut).failing[i]
              IN  e.gap = gAudit[e.metric] - ThresholdOf(e.metric)

\* C5 amended: as above, with each entry's gap equal to score minus threshold
\* rounded to three decimal places.
C5_GateListsFailingWithRoundedGap ==
    IsSome(gOut) =>
        /\ GateListsExactlyTheFailing(gAudit, Get(gOut))
        /\ \A i \in DOMAIN Get(gOut).failing :
              LET e == Get(gOut).failing[i]
              IN  /\ e.gap = Round3(gAudit[e.metric] - ThresholdOf(e.metric))
                  /\ e.required = ThresholdOf(e.metric)

\* C5 witness: one gated metric at 0.4, every other one exactly at its
\* threshold: the gate fails with a single entry whose gap is -0.1.
C5_Witness ==
    /\ IsSome(gOut)
    /\ ~Get(gOut).passes
    /\ Len(Get(gOut).failing) = 1
    /\ Get(gOut).failing[1].gap = -(ONE \div 10)
    /\ \A n \in GatedNames \ { Get(gOut).failing[1].metric } :
          gAudit[n] = ThresholdOf(n)

\* C6: a gated metric whose score is the sentinel is skipped: it has no entry
\* in the failing list, and it does not make the gate fail when every other
\* gated metric reaches its threshold.
C6_SentinelIsSkipped ==
    IsSome(gOut) =>
        \A n \in GatedNames :
            gAudit[n] = Sentinel =>
                /\ n \notin FailingNames(Get(gOut))
                /\ (\A m \in GatedNames \ {n} : gAudit[m] >= ThresholdOf(m))
                       => Get(gOut).passes

\* C6 witness: reviewedness holds the sentinel, another metric fails, and
\* the failing list names that other metric only.
C6_Witness ==
    /\ IsSome(gOut)
    /\ gAudit["reviewedness"] = Sentinel
    /\ Len(Get(gOut).failing) = 1
    /\ Get(gOut).failing[1].metric = "license"

----------------------------------------------------------------------------
(* Properties of the reproducibility metric *)

\* the text matches at least one blacklisted pattern
HasBlacklistedMatch(text) ==
    \E k \in DOMAIN DANGEROUS_PATTERNS :
        \E i \in DOMAIN text : AtomMatches(DANGEROUS_PATTERNS[k], text[i])

\* the python samples of the README
Samples ==
    IF rReadme = None THEN {}
    ELSE { seg.body : seg \in { s \in Range(Get(rReadme)) :
                                  s.fence /\ s.lang \in {"python", "py", "Python"} } }
SafeSamples == { b \in Samples : ~HasBlacklistedMatch(b) }

RunsOf(phase) == { i \in DOMAIN rExecuted : rExecuted[i].phase = phase }
SomeRunExitsZero(phase) ==
    \E i \in RunsOf(phase) : rExecuted[i].outcome = "exit0"
\* every safe sample was run in the phase and none exited successfully
EverySafeSampleFailed(phase) ==
    /\ \A b \in SafeSamples : \E i \in RunsOf(phase) : rExecuted[i].sample = b
    /\ ~SomeRunExitsZero(phase)

\* C8: the score is 1.0 iff some safe sample exits successfully when run
\* unmodified; 0.5 iff none does and some safe sample exits successfully
\* after the fixes; 0.0 otherwise; no other value is produced.
C8_ScoreIsOneHalfOrZero ==
    rPc = "done" =>
        /\ IsSome(rScore)
        /\ Get(rScore) \in { 0, Half, ONE }
        /\ Get(rScore) = ONE <=> SomeRunExitsZero(1)
        /\ Get(rScore) # ONE => EverySafeSampleFailed(1)
        /\ Get(rScore) = Half <=> (~SomeRunExitsZero(1) /\ SomeRunExitsZero(2))
        /\ Get(rScore) = 0 => EverySafeSampleFailed(2)

\* C8 witness: two safe samples both failed unmodified, the first failed
\* again after the fixes and the second then exited successfully: 0.5.
C8_Witness ==
    /\ rPc = "done"
    /\ rScore = Some(Half)
    /\ Cardinality(SafeSamples) = 2
    /\ Len(rExecuted) = 4
    /\ rExecuted[3].outcome = "exit1"
    /\ rExecuted[4].outcome = "exit0"

\* C9: when every extracted sample matches a blacklisted pattern the score
\* is 0.0 and the sandbox is never invoked; and a sample that matches a
\* pattern is never the one run, in either phase, whatever else the README
\* holds.
C9_UnsafeSamplesNeverRun ==
    /\ \A i \in DOMAIN rExecuted :
          /\ rExecuted[i].sample \in SafeSamples
          /\ rExecuted[i].phase = 1 => rExecuted[i].text = rExecuted[i].sample
    /\ (rPc = "done" /\ Samples # {} /\ SafeSamples = {}) =>
          /\ rScore = Some(0)
          /\ rExecuted = << >>

\* C9 witness: a README of two samples, one matching a pattern and one
\* safe, whose safe sample was run in both phases.
C9_Witness ==
    /\ rPc = "done"
    /\ Len(rBlocks) = 2
    /\ HasBlacklistedMatch(rBlocks[1])
    /\ Len(rExecuted) = 2
    /\ rExecuted[2].phase = 2
    /\ rExecuted[2].sample = rBlocks[2]

\* C10 as stated: every text handed to _execute_in_sandbox, in the
\* unmodified phase and in the retry phase, holds no match of any
\* DANGEROUS_PATTERNS entry.
C10_EveryExecutedTextIsScanned ==
    \A i \in DOMAIN rExecuted : ~HasBlacklistedMatch(rExecuted[i].text)

----------------------------------------------------------------------------
(* Properties of score_model *)

\* the result collected for a metric
Collected(name) ==
    Get(pResults)[CHOOSE i \in DOMAIN Get(pResults) :
                      Get(pResults)[i][1] = name][2]

\* the entries of the collected map other than reviewedness
OtherIdx == { i \in DOMAIN Get(pResults) : Get(pResults)[i][1] # "reviewedness" }
OtherScores == [i \in OtherIdx |-> Get(pResults)[i][2].score]
OtherWeights == [i \in OtherIdx |-> WeightOf(DefaultWeights, Get(pResults)[i][1])]
OtherOnes == [i \in OtherIdx |-> 1]

\* C1: in a full evaluation whose context links no code repository, the
\* reviewedness outcome the scorer collects has score -1.0, and the net
\* score is the weighted mean over the other metrics only, the reviewedness
\* weight being in neither the numerator nor the denominator.
C1_NoRepoExcludesReviewedness ==
    (IsSome(pResults) /\ IsSome(pNet) /\ cCodeRepos = << >>) =>
        /\ Collected("reviewedness").score = Sentinel
        /\ FracEq(Get(pNet),
                  Clamp01(Div(SumOver(OtherIdx, OtherScores, OtherWeights),
                              SumOver(OtherIdx, OtherWeights, OtherOnes))))

\* C2: score_model ends with an audit whenever every metric reached a
\* terminal state; no exception leaves it.
C2_ScoreModelReturnsAudit ==
    pPc = "done" => Get(pOutcome).kind = "audit"

\* C7: whatever subset of the metrics raises, the collected map holds one
\* entry per active metric, in registry order; a metric that raised holds
\* 0.0 and every other metric holds exactly the outcome its compute
\* returned.
C7_FailuresBecomeZeroOthersKept ==
    IsSome(pResults) =>
        /\ Len(Get(pResults)) = Len(ActiveNames)
        /\ \A k \in DOMAIN ActiveNames :
              LET name == ActiveNames[k]
                  got  == Get(pResults)[k]
              IN  /\ got[1] = name
                  /\ pTask[name].state \in { "raised", "returned" }
                  /\ pTask[name].state = "raised" => got[2] = MetricResult(0)
                  /\ pTask[name].state = "returned" =>
                        got[2] = Get(pTask[name].result)

\* C7 witness: one metric raised, another returned 1.0, and the map was
\* collected.
C7_Witness ==
    /\ IsSome(pResults)
    /\ \E a, b \in DOMAIN pTask :
          /\ pTask[a].state = "raised"
          /\ pTask[b] = Returned(MetricResult(ONE))
          /\ Collected(a) = MetricResult(0)
          /\ Collected(b) = MetricResult(ONE)

----------------------------------------------------------------------------
(* Properties of repeated calls and of the sample that never ends
   (SpecReproCalls) *)

\* C11 as stated: a sample that loops forever is a failed run in both
\* phases, and a README whose only sample is an infinite loop scores 0.0.
\* (That every call returns needs no more than the deadline of each run:
\* a call makes at most two runs per safe sample.)
C11_LoopSampleFailsInBothPhases ==
    /\ \A i \in DOMAIN rExecuted :
          rExecuted[i].sample = LoopBody
              => ~SandboxSuccess(rExecuted[i].outcome)
    /\ (rPc = "done" /\ rBlocks = << LoopBody >>) => rScore = Some(0)

\* C17: when the README is absent, empty, or holds no fenced python/py
\* sample, every call returns 0.0 and makes no sandbox run, the first call
\* and each repetition on the same input alike.
C17_NoSampleScoresZeroOnEveryCall ==
    Samples = {} =>
        /\ rExecuted = << >>
        /\ rPc = "done" => rScore = Some(0)
        /\ \A i \in DOMAIN rPast :
              rPast[i].score = 0 /\ rPast[i].runs = 0

\* C17 witness: the second call on a README of prose and a bash fence has
\* returned.
C17_Witness ==
    /\ rReadme = Some(<< Prose, Fence("bash", << "pass" >>) >>)
    /\ Len(rPast) = 1
    /\ rPc = "done"
    /\ rScore = Some(0)

----------------------------------------------------------------------------
(* Properties of the temporary script file (SpecSandbox) *)

\* C20 as stated: whenever _execute_in_sandbox has returned, the temporary
\* script file it created no longer exists, whichever way the call ended.
C20_TempFileRemovedOnEveryExit ==
    (sbPc = "idle" /\ sbCalls > 0) => sbDisk = {}

----------------------------------------------------------------------------
(* Properties of the review-provenance check (SpecReview) *)

\* C12 as stated: with no linked repository, a failed clone, or a git log
\* that times out, is missing or exits non-zero, compute returns an outcome
\* whose score is exactly -1.0.
C12_GitFailuresReturnMinusOne ==
    (vPc = "done" /\ (vRepos = << >> \/ ~vGit.clone \/ ~vGit.log))
        => vResult = Some(Returned(MetricResult(Sentinel)))

\* the added lines of the code files of one commit
RECURSIVE AddedCodeLines(_)
AddedCodeLines(files) ==
    IF files = << >> THEN 0
    ELSE (IF IsCodeFile(<< Head(files).name >>)
          THEN Get(ParseAdded(<< Head(files).added >>)) ELSE 0)
         + AddedCodeLines(Tail(files))

\* totalLines: over all commits
RECURSIVE TotalLines(_)
TotalLines(history) ==
    IF history = << >> THEN 0
    ELSE AddedCodeLines(Head(history).files) + TotalLines(Tail(history))

\* reviewedLines: over the reviewed commits only
RECURSIVE ReviewedLines(_)
ReviewedLines(history) ==
    IF history = << >> THEN 0
    ELSE (IF IsReviewedCommit(Head(history).subject)
          THEN AddedCodeLines(Head(history).files) ELSE 0)
         + ReviewedLines(Tail(history))

\* C13 as stated: when git log succeeds the score is reviewedLines /
\* totalLines, reviewedLines summing the added code lines of the reviewed
\* commits and totalLines those of all commits, with 0 <= reviewedLines <=
\* totalLines, and the score is 0.0 when totalLines is 0.
C13_ScoreIsReviewedOverTotal ==
    (vPc = "done" /\ vGit.log) =>
        LET r == ReviewedLines(vHistory)
            t == TotalLines(vHistory)
        IN  /\ 0 <= r /\ r <= t
            /\ vGit.reviewed = r /\ vGit.total = t
            /\ vScore = Some(IF t = 0 THEN 0 ELSE (r * ONE) \div t)

----------------------------------------------------------------------------
(* Properties of validate_ingest_candidate and of the gate it calls
   (SpecIngest) *)

\* C14: every call returns (bool, details).  When the scoring raised, the
\* boolean and details.is_ingestible are false.  Otherwise the boolean is
\* the gate decision and equals details.is_ingestible, artifact_id is set
\* iff the gate passed, and failing_metrics is present, holding the gate's
\* failing entries, iff the gate failed.
C14_ValidateReturnsGateDecision ==
    \A i \in DOMAIN iLog :
        LET rec == iLog[i]
        IN  IF rec.scored.state = "raised"
            THEN /\ rec.passes = FALSE
                 /\ rec.details.is_ingestible = FALSE
            ELSE LET gate == ApplyQualityGate(Get(rec.scored.result))
                 IN  /\ rec.passes = gate.passes
                     /\ rec.details.is_ingestible = gate.passes
                     /\ IsSome(rec.details.artifact_id) <=> gate.passes
                     /\ IsSome(rec.details.failing_metrics) <=> ~gate.passes
                     /\ ~gate.passes =>
                           rec.details.failing_metrics = Some(gate.failing)

\* C14 witness: three calls, one ended by an exception of the scorer, one
\* that passed the gate, one that failed it on reproducibility.
C14_Witness ==
    /\ Len(iLog) = 3
    /\ iLog[1].scored.state = "raised"
    /\ iLog[2].scored.state = "returned" /\ iLog[2].passes
    /\ iLog[3].scored.state = "returned" /\ ~iLog[3].passes
    /\ Len(Get(iLog[3].details.failing_metrics)) = 1

\* C15: a gate call leaves the audit and the threshold table as they were,
\* and what it returns is a function of the audit and the table alone:
\* calls on equal audits return equal (passes, failingMetrics), whatever
\* calls on other audits came before or between them.
C15_GateIsPure ==
    /\ iTable = INGEST_QUALITY_GATE_METRICS
    /\ \A i \in DOMAIN iLog :
          iLog[i].scored.state = "returned" =>
              /\ iLog[i].audit_after = iLog[i].scored.result
              /\ Get(iLog[i].gate) = ApplyQualityGate(Get(iLog[i].scored.result))
              /\ \A j \in DOMAIN iLog :
                    iLog[j].scored = iLog[i].scored
                        => iLog[j].gate = iLog[i].gate

\* C15 witness: the gate was called on one failing audit, then on another
\* audit with a different result, then on the first again.
C15_Witness ==
    /\ Len(iLog) = 3
    /\ \A i \in 1..3 : iLog[i].scored.state = "returned"
    /\ iLog[1].scored = iLog[3].scored
    /\ iLog[2].scored # iLog[1].scored
    /\ Len(Get(iLog[1].gate).failing) = 2
    /\ Get(iLog[2].gate).failing # Get(iLog[1].gate).failing

----------------------------------------------------------------------------
(* Properties of the enrichment (Spec) *)

\* C16: whichever of the three fetches fail, _enrich_context returns; each
\* cached field holds what its own fetch returned when that fetch
\* succeeded and None when it failed, whatever the other two did.
C16_FetchesFailIndependently ==
    /\ pPc = "start" => cFetched = None
    /\ pPc # "start" =>
          /\ IsSome(cFetched)
          /\ LET f == Get(cFetched)
             IN  /\ cHfInfo = (IF f.info.ok THEN f.info.value ELSE None)
                 /\ cReadme = (IF f.readme.ok THEN f.readme.value ELSE None)
                 /\ cConfig = (IF f.config.ok THEN f.config.value ELSE None)

\* C16 witness: the metadata and the config fetch failed and the README
\* fetch in between succeeded; the enrichment returned with the README set.
C16_Witness ==
    /\ pPc = "gather"
    /\ IsSome(cFetched)
    /\ ~Get(cFetched).info.ok
    /\ Get(cFetched).readme.ok
    /\ ~Get(cFetched).config.ok
    /\ cReadme = Some(<< Prose >>)
    /\ cHfInfo = None /\ cConfig = None

----------------------------------------------------------------------------
(* Properties of the scheduling of the metric tasks (Spec) *)

\* C18 as stated: while a metric is inside its blocking subprocess work
\* (the sandbox run of the reproducibility check, the clone and git log of
\* the review-provenance check), the event loop is free for the other
\* metrics that have not ended, so that they can take their steps.
C18_BlockingWorkLeavesLoopFree ==
    \A m \in DOMAIN pTask :
        pTask[m].state \in { "sandbox", "thread" } =>
            \A n \in DOMAIN pTask \ { m } :
                ~Terminal(pTask[n]) => pLoop = None

\* the map the net score is to be computed from: one entry per active
\* metric, in registry order, whatever the order in which they ended
EveryMetricResult ==
    [k \in DOMAIN ActiveNames |->
        << ActiveNames[k],
           IF pTask[ActiveNames[k]].state = "raised" THEN MetricResult(0)
           ELSE Get(pTask[ActiveNames[k]].result) >>]

\* C19: in every interleaving, no net score exists while a metric is still
\* running; once it exists every metric has ended, exactly once, and the
\* net score is the one of the full map, which is fixed by what the
\* metrics ended with and not by the order in which they ended.
C19_NetScoreAfterEveryMetricEnded ==
    /\ (\E n \in DOMAIN pTask : ~Terminal(pTask[n]))
          => (pNet = None /\ pResults = None)
    /\ IsSome(pNet) =>
          /\ Len(pOrder) = Len(ActiveNames)
          /\ Range(pOrder) = Range(ActiveNames)
          /\ pResults = Some(EveryMetricResult)
          /\ pNet = Some(CalculateNetScore(EveryMetricResult, DefaultWeights))

\* C19 witness: the metrics ended in the reverse of the registry order, the
\* last registered one by an exception, and the net score was computed.
C19_Witness ==
    /\ IsSome(pNet)
    /\ Len(pOrder) = Len(ActiveNames)
    /\ \A k \in DOMAIN pOrder :
          pOrder[k] = ActiveNames[Len(ActiveNames) + 1 - k]
    /\ pTask[pOrder[1]].state = "raised"
    /\ pTask[pOrder[2]] = Returned(MetricResult(ONE))

----------------------------------------------------------------------------
(* Properties of the git inspector's lifetime and of the repositories the
   review-provenance check visits (SpecReview) *)

\* C21: once the check has created its git inspector (which it does exactly
\* when a repository is linked), cleanup is called exactly once before the
\* check returns, whichever way the try block ended, and no ephemeral clone
\* is left on disk; it is never called twice.
C21_CleanupExactlyOnce ==
    /\ vCleanups <= 1
    /\ (vPc \in { "return", "done" } /\ vRepos # << >>) =>
           (vCleanups = 1 /\ vClones = {})
    /\ (vPc \in { "return", "done" } /\ vRepos = << >>) =>
           (vCleanups = 0 /\ vClones = {})

\* the check has returned after a clone that failed, cleaned once
C21_Witness ==
    /\ vPc = "done"
    /\ vCloned # << >>
    /\ ~vGit.clone
    /\ vCleanups = 1
    /\ vClones = {}

\* C29: only the first linked repository is ever handed to clone_repo; when
\* its clone fails the check's score is -1.0 however many repositories are
\* linked, and when git log succeeds the line counts are those of the
\* first repository's history.
C29_OnlyFirstRepositoryAnalysed ==
    /\ Len(vCloned) <= 1
    /\ vCloned # << >> => vCloned[1] = vRepos[1]
    /\ (vPc \in { "cleanup", "return", "done" } /\ vRepos # << >>
            /\ ~vGit.clone) => vScore = Some(Sentinel)
    /\ (vPc \in { "cleanup", "return", "done" } /\ vGit.log) =>
           << vGit.reviewed, vGit.total >>
               = ParseGitLogOutput(GitLogOutput(vHistory))

\* two repositories are linked, the clone of the first failed, and the
\* check ended with -1.0 without touching the second
C29_Witness ==
    /\ vPc = "done"
    /\ Len(vRepos) = 2
    /\ vCloned = << vRepos[1] >>
    /\ ~vGit.clone
    /\ vScore = Some(Sentinel)

\* the numstat lines of one commit that are counted, each with the
\* classification of that commit
RECURSIVE CountedUnder(_, _)
CountedUnder(files, flag) ==
    IF files = << >> THEN << >>
    ELSE (IF IsCodeFile(<< Head(files).name >>)
             /\ ParseAdded(<< Head(files).added >>) # None
          THEN << << << Head(files).name >>, flag >> >>
          ELSE << >>)
         \o CountedUnder(Tail(files), flag)

\* every counted file of the history with the classification of its own
\* commit: reviewed iff the subject holds '#' followed by a digit or begins
\* with 'merge' in any letter case
RECURSIVE AttributedByCommit(_)
AttributedByCommit(history) ==
    IF history = << >> THEN << >>
    ELSE CountedUnder(Head(history).files,
                      (\E i \in DOMAIN Head(history).subject :
                           Head(history).subject[i] \in { "#12", "(#7)" })
                      \/ (Head(history).subject # << >>
                          /\ Head(history).subject[1]
                                 \in { "Merge", "merge", "MERGE" }))
         \o AttributedByCommit(Tail(history))

\* C24 as stated: a commit is reviewed iff its message holds a pull-request
\* reference or begins with 'merge', and the added lines of every changed
\* file are counted under the classification of the commit header that
\* most recently precedes the file in the log, which is its own commit's.
C24_LinesFollowTheirCommitHeader ==
    (vPc = "done" /\ vGit.log) =>
        LET lines == GitLogOutput(vHistory)
        IN  ParseLines(lines, Len(lines)).counted
                = AttributedByCommit(vHistory)

----------------------------------------------------------------------------
(* Properties of the shared context (Spec) *)

\* C22: a step of compute of the reproducibility check or of the
\* review-provenance check, whatever it ends with, leaves model_url,
\* datasets, code_repos, hf_info, readme_content and config_data of the
\* shared context as they were.
C22_ComputeLeavesContextUnchanged ==
    [][ (\E m \in { "reproducibility", "reviewedness" } :
            m \in DOMAIN pTask /\ pTask'[m] # pTask[m])
        => UNCHANGED <<cModelUrl, cDatasets, cCodeRepos, cHfInfo, cReadme,
                       cConfig>> ]_vars

\* both checks have ended, one of them by an exception, on a context that
\* links a repository and holds a README
C22_Witness ==
    /\ pPc = "gather"
    /\ "reproducibility" \in DOMAIN pTask
    /\ "reviewedness" \in DOMAIN pTask
    /\ pTask["reproducibility"].state = "returned"
    /\ pTask["reviewedness"].state = "raised"
    /\ cCodeRepos # << >>
    /\ cReadme # None

\* the repository named by the first URL of a README, in document order,
\* its name without the trailing punctuation mark; none without a README
\* or without a URL
FirstMatchRepo(readme) ==
    IF readme = None THEN << >>
    ELSE LET urls == FindAll(Get(readme), FALSE)
         IN  IF urls = << >> THEN << >>
             ELSE << CodeRepo(urls[1].owner,
                              StripTrailingPunct(urls[1].repo)) >>

\* C25 as stated: one call of _enrich_context keeps the repositories
\* already linked, in order, and appends at most one, the one named by the
\* first repository URL of the README; without a README (missing, or its
\* fetch failed) or without a URL in it the list is unchanged.
C25_AppendsFirstMatchOnly ==
    [][ (pPc = "start" /\ pPc' = "gather")
        => cCodeRepos' = cCodeRepos \o FirstMatchRepo(cReadme') ]_vars

----------------------------------------------------------------------------
(* The net score without an applicable weight (SpecNet) *)

\* C23: when the weights of the applicable metrics sum to zero the net
\* score is the unweighted mean of the applicable scores, and it is 0 when
\* no metric is applicable at all (every score is the sentinel, or the map
\* is empty).
C23_ZeroWeightFallsBackToMean ==
    (IsSome(nsNet) /\ ApplicableWeight(nsResults, nsWeights) = 0) =>
        LET idx == ApplicableIdx(nsResults)
        IN  IF idx = {}
            THEN FracEq(Get(nsNet), FracZero)
            ELSE FracEq(Get(nsNet),
                        Frac(SumOver(idx, ScoreAt(nsResults),
                                     Ones(nsResults)),
                             Cardinality(idx)))

\* a net score was returned for a map with two applicable scores and a
\* sentinel whose applicable weights cancel: the mean of 0.5 and 1.0
C23_Witness ==
    /\ IsSome(nsNet)
    /\ ApplicableWeight(nsResults, nsWeights) = 0
    /\ \E n \in DOMAIN nsWeights : nsWeights[n] # 0
    /\ Cardinality(ApplicableIdx(nsResults)) = 2
    /\ \E i \in DOMAIN nsResults : nsResults[i][2] = MetricResult(Sentinel)
    /\ FracEq(Get(nsNet), Frac(3 * Half, 2))

----------------------------------------------------------------------------
(* Order and number of the sandbox runs (SpecRepro) *)

\* the python samples of a markdown text that match no blacklisted
\* pattern, in document order
RECURSIVE SafeInOrder(_)
SafeInOrder(content) ==
    IF content = << >> THEN << >>
    ELSE (IF Head(content).fence
             /\ Head(content).lang \in { "python", "py", "Python" }
             /\ ~HasBlacklistedMatch(Head(content).body)
          THEN << Head(content).body >> ELSE << >>)
         \o SafeInOrder(Tail(content))

\* C26: the runs of the unmodified samples come first, one per safe sample
\* in document order, and end at the first success; the runs of the fixed
\* samples start only after every safe sample failed unmodified, again one
\* per safe sample in document order up to the first success; a README
\* with n safe samples therefore causes at most 2n runs.
C26_RunsOrderedAndBounded ==
    LET safe == IF rReadme = None THEN << >> ELSE SafeInOrder(Get(rReadme))
        n1   == Cardinality(RunsOf(1))
        n2   == Cardinality(RunsOf(2))
    IN  /\ Len(rExecuted) = n1 + n2
        /\ n1 <= Len(safe) /\ n2 <= Len(safe)
        /\ Len(rExecuted) <= 2 * Len(safe)
        /\ \A i \in 1..n1 :
              /\ rExecuted[i].phase = 1
              /\ rExecuted[i].sample = safe[i]
              /\ (i < n1 \/ n2 > 0) => rExecuted[i].outcome # "exit0"
        /\ \A j \in 1..n2 :
              /\ rExecuted[n1 + j].phase = 2
              /\ rExecuted[n1 + j].sample = safe[j]
              /\ j < n2 => rExecuted[n1 + j].outcome # "exit0"
        /\ n2 > 0 => n1 = Len(safe)

\* a README with two safe samples ended after the full 2n = 4 runs, none of
\* which succeeded
C26_Witness ==
    /\ rPc = "done"
    /\ rReadme # None
    /\ Len(SafeInOrder(Get(rReadme))) = 2
    /\ Len(rExecuted) = 4
    /\ \A i \in DOMAIN rExecuted : rExecuted[i].outcome # "exit0"
    /\ rScore = Some(0)

\* the runs of one phase that belong to the finished call
DoneRuns(phase) ==
    { i \in DOMAIN rExecuted : rPc = "done" /\ rExecuted[i].phase = phase }

\* C27 as stated: a safe sample that ended unmodified by raising an
\* ordinary exception exits successfully when retried, and the score is
\* 0.5; a score of 0.0 after a retry means that every retry timed out or
\* exited non-zero by itself.
C27_RaisingSampleRetrySucceeds ==
    /\ \A i \in DoneRuns(1) : \A j \in DoneRuns(2) :
          ( /\ rExecuted[i].raised
            /\ rExecuted[i].outcome = "exit1"
            /\ rExecuted[j].sample = rExecuted[i].sample
            /\ rExecuted[j].outcome # "error" )
          => /\ rExecuted[j].outcome = "exit0"
             /\ rScore = Some(Half)
    /\ (rScore = Some(0) /\ DoneRuns(2) # {})
       => \A j \in DoneRuns(2) :
             rExecuted[j].outcome \in { "timeout", "exit1", "error" }

\* C27, amended: an ordinary exception raised in a retry is swallowed by
\* the added error handling, so that retry exits successfully and the call
\* scores 0.5; a score of 0.0 after a retry means that no retry raised:
\* each timed out, exited non-zero by itself, or could not be started.  A
\* sample that raised unmodified need not raise when retried, because the
\* fix changes its text.
C27_SwallowedExceptionScoresHalf ==
    /\ \A j \in DOMAIN rExecuted :
          (rExecuted[j].phase = 2 /\ rExecuted[j].raised)
          => rExecuted[j].outcome = "exit0"
    /\ \A j \in DoneRuns(2) :
          rExecuted[j].outcome = "exit0"
          => /\ rScore = Some(Half)
             /\ j = Len(rExecuted)
    /\ (rScore = Some(0) /\ DoneRuns(2) # {})
       => \A j \in DoneRuns(2) :
             /\ ~ rExecuted[j].raised
             /\ rExecuted[j].outcome \in { "timeout", "exit1", "error" }

\* the sample that raises ValueError failed unmodified with that exception,
\* its retry raised too and exited successfully, and the call scored 0.5
C27_Witness ==
    /\ rPc = "done"
    /\ rScore = Some(Half)
    /\ \E i \in DoneRuns(1) : \E j \in DoneRuns(2) :
          /\ rExecuted[i].sample = << "raise ValueError" >>
          /\ rExecuted[i].raised /\ rExecuted[i].outcome = "exit1"
          /\ rExecuted[j].sample = rExecuted[i].sample
          /\ rExecuted[j].raised /\ rExecuted[j].outcome = "exit0"

C30_AtMostOneValidator ==
    /\ Len(uInstances) <= 1
    /\ uCalls # << >>
       => /\ uInstances = << uCalls[1].config_path >>
          /\ uValidator = Some(1)
    /\ \A i \in DOMAIN uCalls : uCalls[i].returned = 1
    /\ \A t \in DOMAIN uTask :
          uTask[t].pc # "idle" => uTask[t].validator = Some(1)

\* three calls were made, a later one with another config_path than the
\* first, and both coroutines ended
C30_Witness ==
    /\ Len(uCalls) >= 3
    /\ \E i \in DOMAIN uCalls : uCalls[i].config_path # uCalls[1].config_path
    /\ \E i, j \in DOMAIN uCalls : uCalls[i].fn # uCalls[j].fn
    /\ uTask # << >>
    /\ \A t \in DOMAIN uTask : uTask[t].pc = "done"

====
